---- MODULE Spec2Model ----
(***************************************************************************)
(* Sundex: good-weather-day index from monthly climate normals.            *)
(*                                                                         *)
(* The module models two parts of the repository:                          *)
(*   - the good-day estimator (estimate_good_days_from_monthly of          *)
(*     sundex_v2.py, calculate_good_days of app.py, calculateGoodDays of   *)
(*     the two generated web apps), followed for one grid cell, the        *)
(*     computation being elementwise;                                      *)
(*   - the raster loaders that establish the reference grid.               *)
(*                                                                         *)
(* Numbers.  The code computes in IEEE doubles.  The model computes in     *)
(* fixed point:                                                            *)
(*   probabilities and fractions   1/10000        (0.95  -> 9500)          *)
(*   solar transmittance, solar_min 1/100         (0.40  -> 40)            *)
(*   precipitation                  mm            (150.0 -> 150)           *)
(*   precip_max                     1/10 mm       (2.5   -> 25)            *)
(*   temperature, temp_min          degrees C     (-5    -> -5)            *)
(*   accumulated days               1/10000 day   (24.7  -> 247000)        *)
(* NaN, +inf and -inf are kept as distinct values with IEEE rules.         *)
(***************************************************************************)
EXTENDS Integers, Sequences, FiniteSets, TLC

\* ------------------------------------------------------------------------
\* Values
\* ------------------------------------------------------------------------

\* One unit of probability: frac = Scale  <=>  1.0
Scale == 10000

\* np.nan, and JSON null in the exported data (to_json_list writes None for NaN)
NaN == -99999999

\* An absent grid: dict.get(month) -> None in Python, ?.[m] -> undefined in JS
None == -88888888

\* IEEE infinities, produced by a division by zero
PosInf == 77777777
NegInf == -77777777

IsNum(x) == x # NaN /\ x # None /\ x # PosInf /\ x # NegInf

Min2(a, b) == IF a <= b THEN a ELSE b
Max2(a, b) == IF a >= b THEN a ELSE b

\* a + b on doubles: NaN is absorbing (no infinity is ever added here)
Add(a, b) == IF a = NaN \/ b = NaN THEN NaN ELSE a + b

\* frac * days on doubles
Times(f, d) == IF f = NaN THEN NaN ELSE f * d

\* the product of two fractions, in units of 1/Scale. The product of two
\* positive doubles is positive, however small: it is kept at one unit where
\* the division would leave none, so that a test `> 0` on it, or on a sum it
\* enters, answers as it does on the doubles.
FracMul(a, b) ==
    IF a = NaN \/ b = NaN THEN NaN
    ELSE IF a > 0 /\ b > 0 /\ a * b < Scale THEN 1
    ELSE (a * b) \div Scale

\* ------------------------------------------------------------------------
\* The good-day estimator: constants of the variants
\* ------------------------------------------------------------------------

\* The estimator variants: estimate_good_days_from_monthly (sundex_v2.py),
\* calculate_good_days (app.py), calculateGoodDays of the generated web apps
\* (the JavaScript embedded in build_webapp.py and in build_webapp_v2.py).
MonthlyVariants == {"sundex_v2", "app", "webapp_v2"}
PythonVariants == {"sundex_v2", "app"}
Variants == MonthlyVariants \cup {"webapp"}

\* WINTER_MONTHS in the dict's iteration order; state.months of the v2 web app
\* in its default value
WINTER_MONTHS == <<10, 11, 12, 1, 2, 3, 4>>

\* days per month: WINTER_MONTHS of the Python files, ALL_MONTHS of the v2 web app
DaysInMonth(m) ==
    CASE m \in {1, 3, 5, 7, 8, 10, 12} -> 31
      [] m \in {4, 6, 9, 11} -> 30
      [] OTHER -> 28

RECURSIVE SumDays(_)
SumDays(ms) == IF ms = <<>> THEN 0 ELSE DaysInMonth(Head(ms)) + SumDays(Tail(ms))

\* total_days = sum(WINTER_MONTHS.values())
TOTAL_DAYS == SumDays(WINTER_MONTHS)

\* solar_std / solarStd, in 1/100
SolarStd(v) == IF v = "webapp_v2" THEN 10 ELSE 12

\* temp_std / tempStd, in degrees
TempStd == 5

\* the divisor k of the dry-day heuristic
DryK(v) ==
    CASE v = "sundex_v2" -> 15
      [] v = "webapp_v2" -> 8
      [] OTHER -> 6

\* the lower clip bound of the dry-day heuristic
DryFloor(v) ==
    CASE v = "sundex_v2" -> 1500
      [] v = "webapp_v2" -> 500
      [] OTHER -> 1000

\* the upper clip bound of the dry-day heuristic, 0.95
DryCeil == 9500

\* the clip bounds of the temperature probability, 0.1 and 1.0
TempFloor == 1000
TempCeil == 10000

\* the day count build_webapp.py divides the averaged precipitation by
WebappDays == 30

\* ------------------------------------------------------------------------
\* The standard normal CDF
\* ------------------------------------------------------------------------

\* z is carried in units of 1/ZUnit: every (threshold - mean) / std of the
\* model's inputs is a whole number of them (std 0.12, 0.10 and 5).
ZUnit == 60

\* round(Scale * 0.5 * (1 + erf(z / sqrt(2)))) for z = 0/60, 1/60, ..., 240/60;
\* the polynomial approximation of the web apps' normCdf rounds to the same
\* values at every one of these points.
PhiTable ==
  << 5000, 5066, 5133, 5199, 5266, 5332, 5398, 5464, 5530, 5596, 5662, 5727,
     5793, 5858, 5922, 5987, 6051, 6115, 6179, 6243, 6306, 6368, 6431, 6493,
     6554, 6615, 6676, 6736, 6796, 6856, 6915, 6973, 7031, 7088, 7145, 7202,
     7257, 7313, 7367, 7422, 7475, 7528, 7580, 7632, 7683, 7734, 7784, 7833,
     7881, 7929, 7977, 8023, 8069, 8115, 8159, 8203, 8247, 8289, 8331, 8373,
     8413, 8453, 8493, 8531, 8569, 8607, 8643, 8679, 8715, 8749, 8783, 8817,
     8849, 8881, 8913, 8944, 8974, 9003, 9032, 9060, 9088, 9115, 9141, 9167,
     9192, 9217, 9241, 9265, 9288, 9310, 9332, 9353, 9374, 9394, 9414, 9433,
     9452, 9470, 9488, 9505, 9522, 9538, 9554, 9570, 9585, 9599, 9614, 9627,
     9641, 9654, 9666, 9678, 9690, 9702, 9713, 9724, 9734, 9744, 9754, 9763,
     9772, 9781, 9790, 9798, 9806, 9814, 9821, 9829, 9836, 9842, 9849, 9855,
     9861, 9867, 9872, 9878, 9883, 9888, 9893, 9897, 9902, 9906, 9910, 9914,
     9918, 9922, 9925, 9929, 9932, 9935, 9938, 9941, 9944, 9946, 9949, 9951,
     9953, 9956, 9958, 9960, 9962, 9964, 9965, 9967, 9969, 9970, 9972, 9973,
     9974, 9976, 9977, 9978, 9979, 9980, 9981, 9982, 9983, 9984, 9985, 9986,
     9987, 9987, 9988, 9989, 9989, 9990, 9990, 9991, 9991, 9992, 9992, 9993,
     9993, 9994, 9994, 9994, 9995, 9995, 9995, 9995, 9996, 9996, 9996, 9996,
     9997, 9997, 9997, 9997, 9997, 9998, 9998, 9998, 9998, 9998, 9998, 9998,
     9998, 9999, 9999, 9999, 9999, 9999, 9999, 9999, 9999, 9999, 9999, 9999,
     9999, 9999, 9999, 9999, 9999, 9999, 10000, 10000, 10000, 10000, 10000, 10000,
     10000 >>

\* norm_cdf(x): 0.5 * (1 + erf(x / sqrt(2))); z in 1/ZUnit, NaN for NaN
norm_cdf(z) ==
    IF z = NaN THEN NaN
    ELSE IF z >= 0 THEN PhiTable[Min2(z, Len(PhiTable) - 1) + 1]
    ELSE Scale - PhiTable[Min2(-z, Len(PhiTable) - 1) + 1]

\* (threshold - mean) / std; a value of an absent grid (JS undefined) gives NaN
ZScore(threshold, mean, std) ==
    IF mean = NaN \/ mean = None THEN NaN
    ELSE ((threshold - mean) * ZUnit) \div std

\* np.clip(x, lo, hi); Math.max(lo, Math.min(hi, x)): NaN stays NaN
Clip(x, lo, hi) ==
    CASE x = NaN -> NaN
      [] x = PosInf -> hi
      [] x = NegInf -> lo
      [] OTHER -> Max2(lo, Min2(x, hi))

\* ------------------------------------------------------------------------
\* The per-criterion probabilities
\* ------------------------------------------------------------------------

\* 1 - p on doubles
OneMinus(p) == IF p = NaN THEN NaN ELSE Scale - p

\* SolarProb with the complement forgotten: the probability of a day below
\* the threshold
SolarProbBelow(v, solar_min, sol) ==
    norm_cdf(ZScore(solar_min, sol, SolarStd(v)))

\* frac_good_solar = 1 - norm_cdf((solar_min - soltrans) / solar_std)
SolarProb(v, solar_min, sol) ==
    OneMinus(norm_cdf(ZScore(solar_min, sol, SolarStd(v))))

\* daily_precip_avg / divisor, in 1/Scale, with the IEEE results of x / 0.
\* sundex_v2.py divides by the constant 15; the others by precip_max * k.
DryQuotient(v, ppt, days, precip_max) ==
    CASE ppt = NaN \/ ppt = None -> NaN
      [] v = "sundex_v2" -> (ppt * Scale) \div (days * DryK(v))
      [] precip_max = 0 /\ ppt = 0 -> NaN
      [] precip_max = 0 /\ ppt > 0 -> PosInf
      [] precip_max = 0 /\ ppt < 0 -> NegInf
      [] OTHER -> (ppt * Scale * 10) \div (days * precip_max * DryK(v))

\* 0.95 - q on doubles
DryCeilMinus(q) ==
    CASE q = NaN -> NaN
      [] q = PosInf -> NegInf
      [] q = NegInf -> PosInf
      [] OTHER -> DryCeil - q

\* DryFrac with the sign of the floor wrong
DryFracNegFloor(v, ppt, days, precip_max) ==
    Clip(DryCeilMinus(DryQuotient(v, ppt, days, precip_max)), -DryFloor(v), DryCeil)

\* frac_dry = np.clip(0.95 - quotient, floor, 0.95)
DryFrac(v, ppt, days, precip_max) ==
    Clip(DryCeilMinus(DryQuotient(v, ppt, days, precip_max)), DryFloor(v), DryCeil)

\* TempProb clipped to [0, 1] instead of [0.1, 1]
TempProbNoFloor(temp_min, tmean) ==
    Clip(OneMinus(norm_cdf(ZScore(temp_min, tmean, TempStd))), 0, TempCeil)

\* frac_warm_enough = np.clip(1 - norm_cdf((temp_min - tmean) / temp_std), 0.1, 1.0)
TempProb(temp_min, tmean) ==
    Clip(OneMinus(norm_cdf(ZScore(temp_min, tmean, TempStd))), TempFloor, TempCeil)

\* frac_combined: frac_good_solar * frac_dry * frac_warm_enough in the Python
\* files and in build_webapp.py; fracSolar * fracDry in the v2 web app, which
\* has no temperature criterion.
Combined(v, fs, fd, fw) ==
    IF v = "webapp_v2" THEN FracMul(fs, fd) ELSE FracMul(FracMul(fs, fd), fw)

\* the loop's early `continue`: a grid of the month is None (Python); the
\* cell's sol or ppt is null (v2 web app, which does not test for undefined)
Skips(v, inp) ==
    IF v \in PythonVariants
    THEN inp.sol = None \/ inp.ppt = None \/ inp.tmean = None
    ELSE inp.sol = NaN \/ inp.ppt = NaN

\* the fractions one pass of the loop body computes for a cell
Terms(v, t, inp, days) ==
    LET fs == SolarProb(v, t.solar_min, inp.sol)
        fd == DryFrac(v, inp.ppt, days, t.precip_max)
        fw == IF v = "webapp_v2" THEN None ELSE TempProb(t.temp_min, inp.tmean)
    IN  [fs |-> fs, fd |-> fd, fw |-> fw, fc |-> Combined(v, fs, fd, fw)]

NoTerms == [fs |-> None, fd |-> None, fw |-> None, fc |-> None]

ZeroAcc == [solar |-> 0, dry |-> 0, temp |-> 0, combined |-> 0]

\* one pass of the loop body: the accumulators after the month
\* (good_days_solar, good_days_dry, good_days_temp, good_days_combined;
\* app.py keeps no temperature accumulator, the v2 web app only goodDays)
StepAcc(v, t, a, inp, days) ==
    IF Skips(v, inp) THEN a
    ELSE LET f == Terms(v, t, inp, days)
         IN  [solar    |-> IF v \in PythonVariants
                           THEN Add(a.solar, Times(f.fs, days)) ELSE a.solar,
              dry      |-> IF v \in PythonVariants
                           THEN Add(a.dry, Times(f.fd, days)) ELSE a.dry,
              temp     |-> IF v = "sundex_v2"
                           THEN Add(a.temp, Times(f.fw, days)) ELSE a.temp,
              combined |-> Add(a.combined, Times(f.fc, days))]

\* what the call returns for the cell: the accumulators (Python);
\* goodDays > 0 ? goodDays : null (v2 web app)
Returned(v, a) ==
    IF v = "webapp_v2"
    THEN [a EXCEPT !.combined = IF IsNum(a.combined) /\ a.combined > 0
                                THEN a.combined ELSE NaN]
    ELSE a

\* calculateGoodDays of build_webapp.py for one cell of the averaged grids:
\* null when an input is null, else fracSolar * fracDry * fracWarm * totalDays
AveragedGoodDays(t, inp) ==
    IF inp.sol = NaN \/ inp.ppt = NaN \/ inp.tmean = NaN THEN NaN
    ELSE Times(Terms("webapp", t, inp, WebappDays).fc, TOTAL_DAYS)

\* ------------------------------------------------------------------------
\* The inputs the estimator is run on
\* ------------------------------------------------------------------------

\* how many of the numeric samples below a cell's normals are drawn from
NumSamples == 2

\* a cell's monthly normals: a clear, dry, mild month; a dark, wet, very cold
\* one; two in between
Samples ==
  << [sol |-> 55, ppt |-> 0,   tmean |-> 5],
     [sol |-> 30, ppt |-> 300, tmean |-> -30],
     [sol |-> 45, ppt |-> 90,  tmean |-> -3],
     [sol |-> 62, ppt |-> 20,  tmean |-> 12] >>

NumericInputs == {Samples[i] : i \in 1..Min2(NumSamples, Len(Samples))}

\* a cell's climate: its normals in the core winter months (December to
\* February) and in the shoulder months (October, November, March, April)
Climates == [core : NumericInputs, shoulder : NumericInputs]

NormalsOf(clim, m) == IF m \in {12, 1, 2} THEN clim.core ELSE clim.shoulder

\* the month's inputs for the cell, given its normals s: all three values;
\* nodata (NaN) in one grid or in all three; no file for one variable
Full(s) == {s}

NaNInputs(s) ==
    {[s EXCEPT !.sol = NaN], [sol |-> NaN, ppt |-> NaN, tmean |-> NaN]}

AbsentInputs(s) == {[s EXCEPT !.sol = None], [s EXCEPT !.tmean = None]}

MonthInputs(s) == Full(s) \cup NaNInputs(s) \cup AbsentInputs(s)

NoInput == [sol |-> None, ppt |-> None, tmean |-> None]

AllPresent(inp) == IsNum(inp.sol) /\ IsNum(inp.ppt) /\ IsNum(inp.tmean)
AnyNaN(inp) == inp.sol = NaN \/ inp.ppt = NaN \/ inp.tmean = NaN
AllNaN(inp) == inp.sol = NaN /\ inp.ppt = NaN /\ inp.tmean = NaN
AnyAbsent(inp) == inp.sol = None \/ inp.ppt = None \/ inp.tmean = None

\* the threshold configs: solar_min around the defaults 0.40 and 0.50,
\* precip_max from the sliders' minimum 0 to the default 2.5, temp_min
SolarMins == {40, 50}
PrecipMaxs == {0, 10, 25}
TempMins == {-5}
Thresholds == [solar_min : SolarMins, precip_max : PrecipMaxs, temp_min : TempMins]

\* the steps by which a second call raises solar_min and temp_min
SolarRaise == 10
TempRaise == 5

\* the configs of a second call on the same data: solar_min raised, or
\* temp_min raised, the rest kept
RaisedFrom(t) ==
    {[t EXCEPT !.solar_min = @ + SolarRaise], [t EXCEPT !.temp_min = @ + TempRaise]}

\* ------------------------------------------------------------------------
\* The estimator as a state machine: one call, month by month, for one cell
\* ------------------------------------------------------------------------

VARIABLES
    variant,   \* which estimator runs
    climate,   \* the normals of the cell the call is followed for
    thr,       \* the call's thresholds
    thr2,      \* the thresholds of a second call on the same monthly data
    pc,        \* "loop" while the months are walked, "done" after the return
    idx,       \* how many months of the period the loop has passed
    cell,      \* the cell's inputs in the month passed last
    cur,       \* the fractions computed for that month (NoTerms when skipped)
    cur2,      \* the same for the second call
    acc,       \* the accumulators
    acc2,      \* the accumulators of the second call
    result,    \* what the call returned for the cell
    ghost      \* bookkeeping about the inputs seen, used by the properties only

estVars == <<variant, climate, thr, thr2, pc, idx, cell, cur, cur2, acc, acc2, result, ghost>>

\* The loaders' state
VARIABLES
    ldVariant,     \* which loader runs
    ldPc,          \* "loading", then "done" when the loader has returned
    ldPos,         \* the number of the (variable, month) pair loaded last, 0 at first
    ldCount,       \* how many rasters were loaded
    transform,     \* None, or the number of the pair whose window transform it is
    target_shape,  \* NoShape, or the reference shape
    monthly_data,  \* pair number -> shape of the grid kept for it
    monthly_arrays,\* the grids' shapes collected for the variable being averaged
    averages,      \* variable -> shape of its averaged grid
    ldFirst        \* bookkeeping: the pair and the shape of the first successful load

ldVars == <<ldVariant, ldPc, ldPos, ldCount, transform, target_shape,
            monthly_data, monthly_arrays, averages, ldFirst>>

\* Repeated calls of an estimator on one cell
VARIABLES
    cVariant,  \* which estimator is called
    cCount,    \* how many calls were made
    cPassed,   \* the arguments of the last call, as they were passed
    cArgs,     \* the same argument objects after the call returned
    cHeap,     \* the contents of the process's objects, by identity
    cResult,   \* what the last call returned
    cFirst,    \* bookkeeping: the arguments and the result of the first call
    cOther     \* bookkeeping: a call with other arguments was made since

callVars == <<cVariant, cCount, cPassed, cArgs, cHeap, cResult, cFirst, cOther>>

\* The catalog resolver's state
VARIABLES
    catVariant,  \* which get_file_paths runs
    catPc,       \* "listing", then "done" when the catalog is returned,
                 \* "raised" when int() raised ValueError
    listing,     \* the entries of the data root passed so far, in listing order
    paths        \* the catalog: <<variable, month>> -> the entry whose file it holds

catVars == <<catVariant, catPc, listing, paths>>

\* The raster window loader's state
VARIABLES
    wPc,       \* "open", then "done" when load_raster_wa has returned
    wNodata,   \* the raster's declared nodata value, None when it declares none
    wWindow,   \* the samples read from the window, a grid
    wTarget,   \* target_shape, NoShape for None
    wData      \* the grid returned

winVars == <<wPc, wNodata, wWindow, wTarget, wData>>

\* The temporal aggregator's state
VARIABLES
    agVariant, \* which aggregator runs
    agPc,      \* "collect", then "done" when the average is returned
    agGrids,   \* the grids provided, in order
    agResult   \* the averaged grid

aggVars == <<agVariant, agPc, agGrids, agResult>>

\* The block downsampler's state
VARIABLES
    dsPc,      \* "call", then "done" when downsample has returned
    dsArr,     \* arr, the grid passed
    dsFactor,  \* factor
    dsResult   \* the grid returned

dsVars == <<dsPc, dsArr, dsFactor, dsResult>>

\* A pipeline run: the loader's loops over a catalog, then the export of
\* build_webapp.py and build_webapp_v2.py
VARIABLES
    plVariant,   \* which pipeline runs
    plPc,        \* "load", "main", then "done" or "raised"
    plCatalog,   \* file_paths: variable -> its (month, file) entries as inserted
    plPos,       \* how many catalogued files the loops have reached
    plTransform, \* transform, NoTransform for None
    plTarget,    \* target_shape, NoShape for None
    plData,      \* the grids kept, in load order: variable, month, shape
    plFailed,    \* bookkeeping: a catalogued file could not be opened
    plError,     \* the exception that ended the run, "none" otherwise
    plExport     \* data_export, NoExport before main builds it

plVars == <<plVariant, plPc, plCatalog, plPos, plTransform, plTarget, plData,
            plFailed, plError, plExport>>

\* A frontend session: the controls, the state they set and what is on display
VARIABLES
    uiVariant, \* which frontend: "app", "webapp" or "webapp_v2"
    uiState,   \* state: layer, months, solarMin, precipMax, and the temperature slider's value
    uiMap,     \* the values of the map on display, one per cell; <<>> when none is drawn
    uiLocA,    \* compareLocations.a: whether set, its cell, its vals.goodDays
    uiLocB,    \* compareLocations.b
    uiDiff,    \* the difference panel: whether shown, and its value
    uiUsed,    \* bookkeeping: <<precip_max>> as the last estimator call received it
    uiEvents   \* how many events the session has handled

uiVars == <<uiVariant, uiState, uiMap, uiLocA, uiLocB, uiDiff, uiUsed, uiEvents>>

vars == <<estVars, ldVars, callVars, catVars, winVars, aggVars, dsVars, plVars, uiVars>>

\* the variables each machine leaves alone
exceptEst == <<ldVars, callVars, catVars, winVars, aggVars, dsVars, plVars, uiVars>>
exceptLoad == <<estVars, callVars, catVars, winVars, aggVars, dsVars, plVars, uiVars>>
exceptCall == <<estVars, ldVars, catVars, winVars, aggVars, dsVars, plVars, uiVars>>
exceptCat == <<estVars, ldVars, callVars, winVars, aggVars, dsVars, plVars, uiVars>>
exceptWin == <<estVars, ldVars, callVars, catVars, aggVars, dsVars, plVars, uiVars>>
exceptAgg == <<estVars, ldVars, callVars, catVars, winVars, dsVars, plVars, uiVars>>
exceptDs == <<estVars, ldVars, callVars, catVars, winVars, aggVars, plVars, uiVars>>
exceptPipe == <<estVars, ldVars, callVars, catVars, winVars, aggVars, dsVars, uiVars>>
exceptUi == <<estVars, ldVars, callVars, catVars, winVars, aggVars, dsVars, plVars>>

\* target_shape = None
NoShape == <<>>

NoMap == [x \in {} |-> NoShape]

NoFirst == [pos |-> 0, shape |-> NoShape]


NoResult == [solar |-> None, dry |-> None, temp |-> None, combined |-> None]

\* ghost.expected: the accumulators summed over the months in which the cell
\* has all three values only; the flags say which kinds of month were passed
GhostInit ==
    [expected |-> ZeroAcc, anyNaN |-> FALSE, allNaN |-> TRUE,
     anyAbsent |-> FALSE, anyFull |-> FALSE]

GhostStep(v, t, g, inp, days) ==
    [expected  |-> IF AllPresent(inp) THEN StepAcc(v, t, g.expected, inp, days)
                   ELSE g.expected,
     anyNaN    |-> g.anyNaN \/ (AnyNaN(inp) /\ ~AnyAbsent(inp)),
     allNaN    |-> g.allNaN /\ AllNaN(inp),
     anyAbsent |-> g.anyAbsent \/ AnyAbsent(inp),
     anyFull   |-> g.anyFull \/ AllPresent(inp)]

\* Each machine at rest while another runs

EstIdle ==
    /\ variant = "sundex_v2"
    /\ climate = [core |-> Samples[1], shoulder |-> Samples[1]]
    /\ thr = [solar_min |-> 40, precip_max |-> 25, temp_min |-> -5]
    /\ thr2 = thr
    /\ pc = "done"
    /\ idx = 0
    /\ cell = NoInput
    /\ cur = NoTerms
    /\ cur2 = NoTerms
    /\ acc = ZeroAcc
    /\ acc2 = ZeroAcc
    /\ result = NoResult
    /\ ghost = GhostInit

LoadIdle ==
    /\ ldVariant = "sundex_v2"
    /\ ldPc = "done"
    /\ ldPos = 0
    /\ ldCount = 0
    /\ transform = None
    /\ target_shape = NoShape
    /\ monthly_data = NoMap
    /\ monthly_arrays = <<>>
    /\ averages = NoMap
    /\ ldFirst = NoFirst

CallIdle ==
    /\ cVariant = "sundex_v2"
    /\ cCount = 0
    /\ cPassed = None
    /\ cArgs = None
    /\ cHeap = <<>>
    /\ cResult = NoResult
    /\ cFirst = None
    /\ cOther = FALSE

CatIdle ==
    /\ catVariant = "sundex_v2"
    /\ catPc = "done"
    /\ listing = <<>>
    /\ paths = NoMap

WinIdle ==
    /\ wPc = "done"
    /\ wNodata = None
    /\ wWindow = <<>>
    /\ wTarget = NoShape
    /\ wData = <<>>

AggIdle ==
    /\ agVariant = "sundex"
    /\ agPc = "done"
    /\ agGrids = <<>>
    /\ agResult = <<>>

DsIdle ==
    /\ dsPc = "done"
    /\ dsArr = <<>>
    /\ dsFactor = 2
    /\ dsResult = <<>>

NoTransform == [a |-> 0, b |-> 0, c |-> 0, d |-> 0, e |-> 0, f |-> 0]

NoExport == [shape |-> NoShape]

PipeIdle ==
    /\ plVariant = "sundex_v2"
    /\ plPc = "done"
    /\ plCatalog = <<>>
    /\ plPos = 0
    /\ plTransform = NoTransform
    /\ plTarget = NoShape
    /\ plData = <<>>
    /\ plFailed = FALSE
    /\ plError = "none"
    /\ plExport = NoExport

\* compareLocations = { a: null, b: null }
NoLocation == [set |-> FALSE, cell |-> 0, goodDays |-> 0]

NoDiff == [shown |-> FALSE, value |-> 0]

UiIdle ==
    /\ uiVariant = "webapp_v2"
    /\ uiState = [layer |-> "goodDays", months |-> <<>>, solarMin |-> 50,
                  precipMax |-> 10, tempMin |-> 0]
    /\ uiMap = <<>>
    /\ uiLocA = NoLocation
    /\ uiLocB = NoLocation
    /\ uiDiff = NoDiff
    /\ uiUsed = <<>>
    /\ uiEvents = 0

EstInit ==
    /\ variant \in Variants
    /\ climate \in Climates
    /\ thr \in Thresholds
    /\ thr2 \in RaisedFrom(thr)
    /\ pc = "loop"
    /\ idx = 0
    /\ cell = NoInput
    /\ cur = NoTerms
    /\ cur2 = NoTerms
    /\ acc = ZeroAcc
    /\ acc2 = ZeroAcc
    /\ result = NoResult
    /\ ghost = GhostInit
    /\ LoadIdle /\ CallIdle /\ CatIdle /\ WinIdle /\ AggIdle /\ DsIdle /\ PipeIdle /\ UiIdle

\* one pass of `for month, days_in_month in WINTER_MONTHS.items()` /
\* `for (const m of state.months)`; after the last month the call returns
ProcessMonth ==
    /\ pc = "loop"
    /\ variant \in MonthlyVariants
    /\ idx < Len(WINTER_MONTHS)
    /\ \E inp \in MonthInputs(NormalsOf(climate, WINTER_MONTHS[idx + 1])) :
         LET days == DaysInMonth(WINTER_MONTHS[idx + 1]) IN
         /\ cell' = inp
         /\ cur' = IF Skips(variant, inp) THEN NoTerms
                   ELSE Terms(variant, thr, inp, days)
         /\ cur2' = IF Skips(variant, inp) THEN NoTerms
                    ELSE Terms(variant, thr2, inp, days)
         /\ acc' = StepAcc(variant, thr, acc, inp, days)
         /\ acc2' = StepAcc(variant, thr2, acc2, inp, days)
         /\ ghost' = GhostStep(variant, thr, ghost, inp, days)
    /\ idx' = idx + 1
    /\ pc' = IF idx' = Len(WINTER_MONTHS) THEN "done" ELSE "loop"
    /\ result' = IF idx' = Len(WINTER_MONTHS) THEN Returned(variant, acc') ELSE result
    /\ UNCHANGED <<variant, climate, thr, thr2>>
    /\ UNCHANGED exceptEst

\* calculateGoodDays of build_webapp.py: one pass over the averaged grids
EstimateAveraged ==
    /\ pc = "loop"
    /\ variant = "webapp"
    /\ \E inp \in Full(climate.core) \cup NaNInputs(climate.core) :
         /\ cell' = inp
         /\ cur' = IF AnyNaN(inp) THEN NoTerms
                   ELSE Terms(variant, thr, inp, WebappDays)
         /\ cur2' = IF AnyNaN(inp) THEN NoTerms
                    ELSE Terms(variant, thr2, inp, WebappDays)
         /\ result' = [NoResult EXCEPT !.combined = AveragedGoodDays(thr, inp)]
         /\ ghost' = GhostStep(variant, thr, ghost, inp, WebappDays)
    /\ pc' = "done"
    /\ idx' = 1
    /\ UNCHANGED <<variant, climate, thr, thr2, acc, acc2>>
    /\ UNCHANGED exceptEst

EstNext == ProcessMonth \/ EstimateAveraged


\* ------------------------------------------------------------------------
\* Repeated calls of an estimator: what a call keeps from the calls before
\* ------------------------------------------------------------------------

\* how many calls are made on the same process
MaxCalls == 3

\* the thresholds the calls are made with: the default precip_max
CallThresholds == {t \in Thresholds : t.precip_max = 25}

\* the monthly data the calls are made with: every month's grids present, or
\* no soltrans grid for October
Patterns == {"full", "gap"}

MonthlyOf(clim, pat) ==
    [i \in 1..Len(WINTER_MONTHS) |->
        IF pat = "gap" /\ i = 1
        THEN [NormalsOf(clim, WINTER_MONTHS[i]) EXCEPT !.sol = None]
        ELSE NormalsOf(clim, WINTER_MONTHS[i])]

\* the whole month loop of one call, from month number i on
RECURSIVE RunMonths(_, _, _, _, _)
RunMonths(v, t, monthly, a, i) ==
    IF i > Len(WINTER_MONTHS) THEN a
    ELSE RunMonths(v, t, monthly,
                   StepAcc(v, t, a, monthly[i], DaysInMonth(WINTER_MONTHS[i])),
                   i + 1)

\* The objects a call works on, by identity. Objects 1..21 are the arrays
\* monthly_data[var][month] the caller passes, 22..24 the entries of the
\* thresholds dict (the three float arguments of app.py), 25..28 the storage
\* of the arrays a call allocates; the storage of the arrays of an earlier
\* call, freed since, is what the allocator hands out again.
InputNames == <<"soltrans", "ppt", "tmean">>

ThresholdKeys == <<"solar_min", "precip_max", "temp_min">>

AccNames == <<"good_days_solar", "good_days_dry", "good_days_temp", "good_days_combined">>

IndexOf(seq, x) == CHOOSE k \in DOMAIN seq : seq[k] = x

\* monthly_data[var][month], month number i of the period
ArrayId(var, i) == (IndexOf(InputNames, var) - 1) * Len(WINTER_MONTHS) + i

\* thresholds[key]
KeyId(key) == Len(InputNames) * Len(WINTER_MONTHS) + IndexOf(ThresholdKeys, key)

\* the array bound to the local name
AccId(name) ==
    Len(InputNames) * Len(WINTER_MONTHS) + Len(ThresholdKeys) + IndexOf(AccNames, name)

ObjectIds == 1..AccId("good_days_combined")

\* the caller's side of a call: the argument objects hold what is passed
WithArgs(h, args) ==
    [id \in ObjectIds |->
        IF \E i \in 1..Len(WINTER_MONTHS) : id = ArrayId("soltrans", i)
            THEN args.monthly[id - ArrayId("soltrans", 1) + 1].sol
        ELSE IF \E i \in 1..Len(WINTER_MONTHS) : id = ArrayId("ppt", i)
            THEN args.monthly[id - ArrayId("ppt", 1) + 1].ppt
        ELSE IF \E i \in 1..Len(WINTER_MONTHS) : id = ArrayId("tmean", i)
            THEN args.monthly[id - ArrayId("tmean", 1) + 1].tmean
        ELSE IF id = KeyId("solar_min") THEN args.thresholds.solar_min
        ELSE IF id = KeyId("precip_max") THEN args.thresholds.precip_max
        ELSE IF id = KeyId("temp_min") THEN args.thresholds.temp_min
        ELSE h[id]]

\* monthly_data[...].get(month) for the three variables: the objects
\* themselves, read where they are
GetMonth(h, i) ==
    [sol   |-> h[ArrayId("soltrans", i)],
     ppt   |-> h[ArrayId("ppt", i)],
     tmean |-> h[ArrayId("tmean", i)]]

\* thresholds['solar_min'], thresholds['precip_max'], thresholds['temp_min']
GetThresholds(h) ==
    [solar_min  |-> h[KeyId("solar_min")],
     precip_max |-> h[KeyId("precip_max")],
     temp_min   |-> h[KeyId("temp_min")]]

\* the argument objects as they are in h
ArgsIn(h) ==
    [monthly    |-> [i \in 1..Len(WINTER_MONTHS) |-> GetMonth(h, i)],
     thresholds |-> GetThresholds(h)]

\* an array allocated without being filled: it holds what its storage held
np_empty(h, id) == h

\* np.zeros(shape): the allocated array holds zeros
np_zeros(h, id) == [h EXCEPT ![id] = 0]

\* target += x: the object the name is bound to is updated in place
iadd(h, id, x) == [h EXCEPT ![id] = Add(h[id], x)]

\* good_days_solar = np.zeros(shape), ...; app.py has no good_days_temp
Allocated(v, h) ==
    LET h1 == np_zeros(h, AccId("good_days_solar"))
        h2 == np_zeros(h1, AccId("good_days_dry"))
        h3 == IF v = "sundex_v2" THEN np_zeros(h2, AccId("good_days_temp")) ELSE h2
    IN  np_zeros(h3, AccId("good_days_combined"))

\* one pass of the loop body on the objects: the fractions are new arrays,
\* the four `+=` update the allocated arrays in place
LoopBody(v, h, i) ==
    LET inp == GetMonth(h, i)
        days == DaysInMonth(WINTER_MONTHS[i])
    IN  IF Skips(v, inp) THEN h
        ELSE LET f == Terms(v, GetThresholds(h), inp, days)
                 h1 == iadd(h, AccId("good_days_solar"), Times(f.fs, days))
                 h2 == iadd(h1, AccId("good_days_dry"), Times(f.fd, days))
                 h3 == IF v = "sundex_v2"
                       THEN iadd(h2, AccId("good_days_temp"), Times(f.fw, days))
                       ELSE h2
             IN  iadd(h3, AccId("good_days_combined"), Times(f.fc, days))

\* for month, days_in_month in WINTER_MONTHS.items(), from month number i on
RECURSIVE MonthLoop(_, _, _)
MonthLoop(v, h, i) ==
    IF i > Len(WINTER_MONTHS) THEN h
    ELSE MonthLoop(v, LoopBody(v, h, i), i + 1)

\* the returned arrays: 'good_days', 'good_days_solar', 'good_days_dry',
\* 'good_days_temp' (sundex_v2.py); combined, solar, dry (app.py)
ResultIn(v, h) ==
    [solar    |-> h[AccId("good_days_solar")],
     dry      |-> h[AccId("good_days_dry")],
     temp     |-> IF v = "sundex_v2" THEN h[AccId("good_days_temp")] ELSE 0,
     combined |-> h[AccId("good_days_combined")]]

CallInit ==
    /\ cVariant \in PythonVariants
    /\ cCount = 0
    /\ cPassed = None
    /\ cArgs = None
    /\ cHeap = [id \in ObjectIds |-> 0]
    /\ cResult = NoResult
    /\ cFirst = None
    /\ cOther = FALSE
    /\ EstIdle /\ LoadIdle /\ CatIdle /\ WinIdle /\ AggIdle /\ DsIdle /\ PipeIdle /\ UiIdle

\* one whole call of estimate_good_days_from_monthly / calculate_good_days on
\* argument objects the caller holds: allocation, the month loop, return
EstimateCall ==
    /\ cCount < MaxCalls
    /\ \E clim \in Climates, t \in CallThresholds, pat \in Patterns :
         LET args == [monthly |-> MonthlyOf(clim, pat), thresholds |-> t]
             entry == WithArgs(cHeap, args)
             exit == MonthLoop(cVariant, Allocated(cVariant, entry), 1)
             r == ResultIn(cVariant, exit)
         IN  /\ cPassed' = args
             /\ cHeap' = exit
             /\ cArgs' = ArgsIn(exit)
             /\ cResult' = r
             /\ cFirst' = IF cCount = 0 THEN [args |-> args, result |-> r] ELSE cFirst
             /\ cOther' = IF cCount = 0 THEN FALSE
                          ELSE (cOther \/ args # cFirst.args)
    /\ cCount' = cCount + 1
    /\ UNCHANGED cVariant
    /\ UNCHANGED exceptCall

CallNext == EstimateCall

\* ------------------------------------------------------------------------
\* The raster loaders
\* ------------------------------------------------------------------------

\* compute_winter_averages (sundex.py), load_monthly_data (sundex_v2.py,
\* app.py, build_webapp_v2.py), load_and_average_data (build_webapp.py)
LoaderVariants == {"sundex", "sundex_v2", "app", "webapp", "webapp_v2"}

\* the loaders that reduce each variable's months to one averaged grid
AveragingLoaders == {"sundex", "webapp"}

\* the keys of `paths` in insertion order, which file_paths.items() follows
VarsOf(lv) ==
    IF lv = "webapp_v2" THEN <<"ppt", "soltrans", "tmean">>
    ELSE <<"ppt", "soltrans", "tmean", "tdmean">>

\* the inner loop's months: WINTER_MONTHS, or range(1, 13) in build_webapp_v2.py
MonthsOf(lv) ==
    IF lv = "webapp_v2" THEN <<1, 2, 3, 4, 5, 6, 7, 8, 9, 10, 11, 12>>
    ELSE WINTER_MONTHS

\* the (variable, month) pairs numbered in the order the nested loops reach them
NumKeys(lv) == Len(VarsOf(lv)) * Len(MonthsOf(lv))
VarIndex(lv, p) == ((p - 1) \div Len(MonthsOf(lv))) + 1
VarAt(lv, p) == VarsOf(lv)[VarIndex(lv, p)]
MonthAt(lv, p) == MonthsOf(lv)[((p - 1) % Len(MonthsOf(lv))) + 1]

\* the shapes (rows, cols) of the windows the rasters' native grids give
NativeShapes == {<<2, 2>>, <<2, 3>>, <<3, 2>>, <<3, 3>>}

\* how many raster files the catalog holds at most
MaxFiles == 2

\* the shape of the grid after the crop/pad of load_raster_wa and of the
\* inline copies: np.full(target_shape, np.nan) when the shapes differ
Conformed(shape, target) == IF target # NoShape /\ shape # target THEN target ELSE shape

LoadInit ==
    /\ ldVariant \in LoaderVariants
    /\ ldPc = "loading"
    /\ ldPos = 0
    /\ ldCount = 0
    /\ transform = None
    /\ target_shape = NoShape
    /\ monthly_data = NoMap
    /\ monthly_arrays = <<>>
    /\ averages = NoMap
    /\ ldFirst = NoFirst
    /\ EstIdle /\ CallIdle /\ CatIdle /\ WinIdle /\ AggIdle /\ DsIdle /\ PipeIdle /\ UiIdle

\* a function extended by one pair
Put(f, k, v) == [x \in DOMAIN f \cup {k} |-> IF x = k THEN v ELSE f[x]]

\* the end of a variable's months in build_webapp.py: the arrays are aligned
\* to the shape of the variable's first array and averaged
AlignedToFirst(arrays) == arrays[1]

\* the end of a variable's months in an averaging loader: averages[var] is set
\* when the variable has arrays. sundex.py stacks the grids load_raster_wa
\* already conformed; build_webapp.py aligns them to the variable's first.
EndVariable(lv, avgs, arrays, var) ==
    IF lv \in AveragingLoaders /\ arrays # <<>>
    THEN Put(avgs, var, AlignedToFirst(arrays))
    ELSE avgs

\* The loops run from the pair loaded last to the next pair the catalog has a
\* file for, p, whose window has the shape `shape`, and load it.
LoadRaster ==
    /\ ldPc = "loading"
    /\ ldCount < MaxFiles
    /\ \E p \in (ldPos + 1)..NumKeys(ldVariant), shape \in NativeShapes :
         LET newVar == ldPos > 0 /\ VarIndex(ldVariant, p) # VarIndex(ldVariant, ldPos)
             \* sundex.py, sundex_v2.py: load_raster_wa(target_shape=target_shape);
             \* app.py, build_webapp_v2.py: the inline copy against target_shape,
             \* set from the raw window when transform is None;
             \* build_webapp.py: the raw window is appended
             data == IF ldVariant = "webapp" THEN shape
                     ELSE Conformed(shape, target_shape)
         IN
         /\ ldPos' = p
         /\ transform' = IF transform = None THEN p ELSE transform
         /\ target_shape' = IF ldVariant # "webapp" /\ transform = None
                            THEN data ELSE target_shape
         /\ monthly_data' = IF ldVariant \in AveragingLoaders THEN monthly_data
                            ELSE Put(monthly_data, p, data)
         /\ averages' = IF newVar
                        THEN EndVariable(ldVariant, averages, monthly_arrays,
                                         VarAt(ldVariant, ldPos))
                        ELSE averages
         /\ monthly_arrays' = IF ldVariant \in AveragingLoaders
                              THEN (IF newVar THEN <<data>>
                                    ELSE Append(monthly_arrays, data))
                              ELSE monthly_arrays
         /\ ldFirst' = IF ldCount = 0 THEN [pos |-> p, shape |-> shape] ELSE ldFirst
    /\ ldCount' = ldCount + 1
    /\ UNCHANGED <<ldVariant, ldPc>>
    /\ UNCHANGED exceptLoad

\* The catalog has no further file: the loops run out and the loader returns.
FinishLoad ==
    /\ ldPc = "loading"
    /\ ldPc' = "done"
    /\ averages' = IF ldPos > 0
                   THEN EndVariable(ldVariant, averages, monthly_arrays,
                                    VarAt(ldVariant, ldPos))
                   ELSE averages
    /\ monthly_arrays' = <<>>
    /\ UNCHANGED <<ldVariant, ldPos, ldCount, transform, target_shape,
                   monthly_data, ldFirst>>
    /\ UNCHANGED exceptLoad

LoadNext == LoadRaster \/ FinishLoad

\* ------------------------------------------------------------------------
\* The catalog resolver: get_file_paths
\* ------------------------------------------------------------------------

\* A name is the sequence of its characters; a character outside ASCII is
\* written by its code point ("U+0661" is one character).

UpperChars == <<"A","B","C","D","E","F","G","H","I","J","K","L","M","N","O","P","Q","R","S","T","U","V","W","X","Y","Z">>
LowerChars == <<"a","b","c","d","e","f","g","h","i","j","k","l","m","n","o","p","q","r","s","t","u","v","w","x","y","z">>
DigitChars == <<"0","1","2","3","4","5","6","7","8","9">>

\* The decimal digits (Unicode category Nd) that names are built from here:
\* ASCII, Arabic-Indic and fullwidth, each row in the order 0..9. str.isdigit()
\* is True for them and int() reads them by their value.
DecimalDigits == <<
    DigitChars,
    <<"U+0660","U+0661","U+0662","U+0663","U+0664","U+0665","U+0666","U+0667","U+0668","U+0669">>,
    <<"U+FF10","U+FF11","U+FF12","U+FF13","U+FF14","U+FF15","U+FF16","U+FF17","U+FF18","U+FF19">> >>

DecimalChars == {DecimalDigits[t][d] : t \in 1..Len(DecimalDigits), d \in 1..10}

\* Digit characters that are no decimal digits: the superscripts two, three
\* and one. str.isdigit() is True for them, int() does not accept them.
OtherDigits == {"U+00B2", "U+00B3", "U+00B9"}

\* the exception int() raises, where a month would stand
ValueError == -66666666

\* str.lower()
LowerChar(c) ==
    IF \E i \in 1..Len(UpperChars) : UpperChars[i] = c
    THEN LowerChars[CHOOSE i \in 1..Len(UpperChars) : UpperChars[i] = c]
    ELSE c

ToLower(s) == [i \in 1..Len(s) |-> LowerChar(s[i])]

\* sub in s
Contains(sub, s) ==
    \E i \in 1..(Len(s) - Len(sub) + 1) : SubSeq(s, i, i + Len(sub) - 1) = sub

\* s.split('_'): the segments between the underscores, empty ones kept
RECURSIVE SplitFrom(_, _, _)
SplitFrom(s, i, seg) ==
    IF i > Len(s) THEN <<seg>>
    ELSE IF s[i] = "_" THEN <<seg>> \o SplitFrom(s, i + 1, <<>>)
    ELSE SplitFrom(s, i + 1, Append(seg, s[i]))

Split(s) == SplitFrom(s, 1, <<>>)

\* p.isdigit(): every character is a digit character, decimal or not, and
\* there is at least one
IsDigit(p) ==
    /\ Len(p) > 0
    /\ \A i \in 1..Len(p) : p[i] \in DecimalChars \cup OtherDigits

\* the value of a decimal digit, whatever its script
DigitVal(c) ==
    (CHOOSE d \in 1..10 : \E t \in 1..Len(DecimalDigits) : DecimalDigits[t][d] = c) - 1

\* int(p) of a string p.isdigit() accepted: the number its decimal digits
\* write, ValueError when a character is no decimal digit
RECURSIVE ToInt(_)
ToInt(p) ==
    IF Len(p) = 0 \/ \E i \in 1..Len(p) : p[i] \notin DecimalChars THEN ValueError
    ELSE IF Len(p) = 1 THEN DigitVal(p[1])
    ELSE 10 * ToInt(SubSeq(p, 1, Len(p) - 1)) + DigitVal(p[Len(p)])

\* the variable identifiers as they are searched for in the lowered name
VarChars(var) ==
    CASE var = "ppt" -> <<"p","p","t">>
      [] var = "soltrans" -> <<"s","o","l","t","r","a","n","s">>
      [] var = "tmean" -> <<"t","m","e","a","n">>
      [] var = "tdmean" -> <<"t","d","m","e","a","n">>

Marker800m == <<"8","0","0","m">>
MarkerBil == <<"_","b","i","l">>
SegmentBil == <<"b","i","l">>
MarkerAvg30y == <<"a","v","g","_","3","0","y">>

\* the old naming: the first 'bil' segment, not the name's first segment, that
\* a two-digit segment precedes gives the month; None when there is none,
\* ValueError when int() refuses the segment
MonthBeforeBil(parts) ==
    LET hits == {i \in 2..Len(parts) :
                    /\ parts[i] = SegmentBil
                    /\ IsDigit(parts[i - 1])
                    /\ Len(parts[i - 1]) = 2}
    IN  IF hits = {} THEN None
        ELSE ToInt(parts[(CHOOSE i \in hits : \A j \in hits : i <= j) - 1])

\* MonthOfYYYYMM reading the token's first two digits
MonthOfYYYYMMHead(parts) ==
    LET hits == {i \in 1..Len(parts) : Len(parts[i]) = 6 /\ IsDigit(parts[i])}
    IN  IF hits = {} THEN None
        ELSE ToInt(SubSeq(parts[CHOOSE i \in hits : \A j \in hits : i <= j], 1, 2))

\* the new naming: the first six-digit segment gives the month in p[4:6],
\* ValueError when int() refuses these two characters
MonthOfYYYYMM(parts) ==
    LET hits == {i \in 1..Len(parts) : Len(parts[i]) = 6 /\ IsDigit(parts[i])}
    IN  IF hits = {} THEN None
        ELSE ToInt(SubSeq(parts[CHOOSE i \in hits : \A j \in hits : i <= j], 5, 6))

\* month = None; if '_bil' in item_lower: ...; elif 'avg_30y' in item_lower: ...
ExtractMonth(item) ==
    IF Contains(MarkerBil, ToLower(item)) THEN MonthBeforeBil(Split(item))
    ELSE IF Contains(MarkerAvg30y, ToLower(item)) THEN MonthOfYYYYMM(Split(item))
    ELSE None

\* ClassifiedAs taking the identifier that stands first in the name
ClassifiedByPosition(cv, item) ==
    LET low == ToLower(item)
        At(k) == CHOOSE i \in 1..Len(low) :
                    /\ SubSeq(low, i, i + Len(VarChars(VarsOf(cv)[k])) - 1)
                           = VarChars(VarsOf(cv)[k])
                    /\ \A j \in 1..(i - 1) :
                           SubSeq(low, j, j + Len(VarChars(VarsOf(cv)[k])) - 1)
                              # VarChars(VarsOf(cv)[k])
        hits == {k \in 1..Len(VarsOf(cv)) : Contains(VarChars(VarsOf(cv)[k]), low)}
    IN  IF hits = {} THEN 0 ELSE CHOOSE k \in hits : \A j \in hits : At(k) <= At(j)

\* for var in paths.keys(): if var in item_lower: ... break
\* the number of the first identifier the lowered name contains, 0 for none
ClassifiedAs(cv, item) ==
    LET hits == {k \in 1..Len(VarsOf(cv)) : Contains(VarChars(VarsOf(cv)[k]), ToLower(item))}
    IN  IF hits = {} THEN 0 ELSE CHOOSE k \in hits : \A j \in hits : k <= j

\* if '800m' in item_lower: continue   (sundex.py has no such test)
Skipped800m(cv, item) == cv # "sundex" /\ Contains(Marker800m, ToLower(item))

\* if month:   (None and 0 are false)
Truthy(month) == month # None /\ month # 0

\* the entries the data root may hold
Entries == <<
    \* PRISM_ppt_30yr_normal_4kmM4_01_bil: the old naming: precipitation, January
    [kind |-> "raster_dir", name |->
       <<"P","R","I","S","M","_","p","p","t","_","3","0","y","r","_","n",
         "o","r","m","a","l","_","4","k","m","M","4","_","0","1","_","b",
         "i","l">>],
    \* prism_tmean_us_25m_202001_avg_30y: the new naming: mean temperature, January
    [kind |-> "raster_dir", name |->
       <<"p","r","i","s","m","_","t","m","e","a","n","_","u","s","_","2",
         "5","m","_","2","0","2","0","0","1","_","a","v","g","_","3","0",
         "y">>],
    \* prism_ppt_us_25m_202001_avg_30y: the new naming: precipitation, January again
    [kind |-> "raster_dir", name |->
       <<"p","r","i","s","m","_","p","p","t","_","u","s","_","2","5","m",
         "_","2","0","2","0","0","1","_","a","v","g","_","3","0","y">>],
    \* PRISM_ppt_30yr_normal_800mM4_01_bil: the 800 m product
    [kind |-> "raster_dir", name |->
       <<"P","R","I","S","M","_","p","p","t","_","3","0","y","r","_","n",
         "o","r","m","a","l","_","8","0","0","m","M","4","_","0","1","_",
         "b","i","l">>],
    \* PRISM_tmean_30yr_normal_4kmM4_13_bil: a month token of 13
    [kind |-> "raster_dir", name |->
       <<"P","R","I","S","M","_","t","m","e","a","n","_","3","0","y","r",
         "_","n","o","r","m","a","l","_","4","k","m","M","4","_","1","3",
         "_","b","i","l">>],
    \* prism_soltrans_us_25m_202000_avg_30y: a month token of 00
    [kind |-> "raster_dir", name |->
       <<"p","r","i","s","m","_","s","o","l","t","r","a","n","s","_","u",
         "s","_","2","5","m","_","2","0","2","0","0","0","_","a","v","g",
         "_","3","0","y">>],
    \* prism_tdmean_ppt_us_25m_202002_avg_30y: two identifiers, tdmean standing first in the name
    [kind |-> "raster_dir", name |->
       <<"p","r","i","s","m","_","t","d","m","e","a","n","_","p","p","t",
         "_","u","s","_","2","5","m","_","2","0","2","0","0","2","_","a",
         "v","g","_","3","0","y">>],
    \* PRISM_ppt_tmean_30yr_normal_annual_bil: two identifiers and no month token
    [kind |-> "raster_dir", name |->
       <<"P","R","I","S","M","_","p","p","t","_","t","m","e","a","n","_",
         "3","0","y","r","_","n","o","r","m","a","l","_","a","n","n","u",
         "a","l","_","b","i","l">>],
    \* prism_tmean_us_25m_202003: a six-digit token and no avg_30y marker
    [kind |-> "raster_dir", name |->
       <<"p","r","i","s","m","_","t","m","e","a","n","_","u","s","_","2",
         "5","m","_","2","0","2","0","0","3">>],
    \* prism_202004_soltrans_avg_30y: the six-digit token standing early
    [kind |-> "raster_dir", name |->
       <<"p","r","i","s","m","_","2","0","2","0","0","4","_","s","o","l",
         "t","r","a","n","s","_","a","v","g","_","3","0","y">>],
    \* PRISM_soltrans_30yr_normal_4kmM4_02_bil: a directory that holds no raster file
    [kind |-> "empty_dir", name |->
       <<"P","R","I","S","M","_","s","o","l","t","r","a","n","s","_","3",
         "0","y","r","_","n","o","r","m","a","l","_","4","k","m","M","4",
         "_","0","2","_","b","i","l">>],
    \* PRISM_tmean_30yr_normal_4kmM4_03_bil: an entry that is no directory
    [kind |-> "file", name |->
       <<"P","R","I","S","M","_","t","m","e","a","n","_","3","0","y","r",
         "_","n","o","r","m","a","l","_","4","k","m","M","4","_","0","3",
         "_","b","i","l">>],
    \* PRISM_TDMEAN_30yr_normal_4kmM4_12_bil: the identifier in upper case
    [kind |-> "raster_dir", name |->
       <<"P","R","I","S","M","_","T","D","M","E","A","N","_","3","0","y",
         "r","_","n","o","r","m","a","l","_","4","k","m","M","4","_","1",
         "2","_","b","i","l">>],
    \* ppt_XX_bil with XX the Arabic-Indic digits one, two: December
    [kind |-> "raster_dir", name |->
       <<"p","p","t","_","U+0661","U+0662","_","b","i","l">>],
    \* tmean_2020XX_avg_30y with XX the fullwidth digits zero, three: March
    [kind |-> "raster_dir", name |->
       <<"t","m","e","a","n","_","2","0","2","0","U+FF10","U+FF13","_","a",
         "v","g","_","3","0","y">>],
    \* soltrans_XX_bil with XX twice the superscript two: int() raises
    [kind |-> "raster_dir", name |->
       <<"s","o","l","t","r","a","n","s","_","U+00B2","U+00B2","_","b","i",
         "l">>] >>

\* how many entries the listing of the data root has at most
MaxDirs == 3

\* paths[var][month] = raster_file
Assign(f, k, v) == [x \in DOMAIN f \cup {k} |-> IF x = k THEN v ELSE f[x]]

\* the pass on entry number e ends in the ValueError of int(): the entry is
\* a directory, it is not passed over for its resolution, it is classified,
\* and the month token int() is given holds a digit that is no decimal digit
Raises(cv, e) ==
    LET item == Entries[e].name
    IN  /\ Entries[e].kind # "file"
        /\ ~Skipped800m(cv, item)
        /\ ClassifiedAs(cv, item) # 0
        /\ ExtractMonth(item) = ValueError

\* one pass of `for item in os.listdir(DATA_DIR)` on entry number e: the
\* catalog after it; the pass that raises has assigned nothing
AfterItem(cv, cat, e) ==
    LET item == Entries[e].name
        k == ClassifiedAs(cv, item)
        month == ExtractMonth(item)
    IN  IF Entries[e].kind = "file" THEN cat
        ELSE IF Skipped800m(cv, item) THEN cat
        ELSE IF k = 0 THEN cat
        ELSE IF month = ValueError THEN cat
        ELSE IF ~Truthy(month) THEN cat
        ELSE IF Entries[e].kind # "raster_dir" THEN cat
        ELSE Assign(cat, <<VarsOf(cv)[k], month>>, e)

CatInit ==
    /\ catVariant \in LoaderVariants
    /\ catPc = "listing"
    /\ listing = <<>>
    /\ paths = NoMap
    /\ EstIdle /\ LoadIdle /\ CallIdle /\ WinIdle /\ AggIdle /\ DsIdle /\ PipeIdle /\ UiIdle

\* the listing yields its next entry, in whatever order os.listdir has; when
\* the pass raises, get_file_paths ends there and returns no catalog
VisitEntry ==
    /\ catPc = "listing"
    /\ Len(listing) < MaxDirs
    /\ \E e \in 1..Len(Entries) :
         /\ \A i \in 1..Len(listing) : listing[i] # e
         /\ listing' = Append(listing, e)
         /\ paths' = AfterItem(catVariant, paths, e)
         /\ catPc' = IF Raises(catVariant, e) THEN "raised" ELSE catPc
    /\ UNCHANGED catVariant
    /\ UNCHANGED exceptCat

\* the listing is exhausted: return paths
ReturnPaths ==
    /\ catPc = "listing"
    /\ catPc' = "done"
    /\ UNCHANGED <<catVariant, listing, paths>>
    /\ UNCHANGED exceptCat

CatNext == VisitEntry \/ ReturnPaths

\* ------------------------------------------------------------------------
\* The raster window loader: load_raster_wa
\* ------------------------------------------------------------------------

\* A grid is its shape (rows, cols) and its cells, numbered from 0.

CellsOf(shape) == (0..(shape[1] - 1)) \X (0..(shape[2] - 1))

\* the shapes of the windows read, and of target_shape
WindowShapes == {<<1, 2>>, <<2, 1>>, <<2, 2>>}

\* the sample values a raster holds
SampleValues == {0, -9999, 7}

\* src.nodata: None when the raster declares none
DeclaredNodata == {None, 0, -9999, 7}

\* data = src.read(1, window=window)
Windows ==
    UNION {[shape : {sh}, at : [CellsOf(sh) -> SampleValues]] : sh \in WindowShapes}

\* the nodata value used when src.nodata is false
DefaultNodata == -9999

\* nodata = src.nodata if src.nodata else -9999   (None and 0 are false)
NodataUsed(declared) ==
    IF declared # None /\ declared # 0 THEN declared ELSE DefaultNodata

\* data = np.where(data == nodata, np.nan, data)
Masked(win, declared) ==
    [win EXCEPT !.at = [c \in DOMAIN win.at |->
                          IF win.at[c] = NodataUsed(declared) THEN NaN ELSE win.at[c]]]

\* Reshaped with the mismatch left alone
NotReshaped(data, target) == data

\* if target_shape is not None and data.shape != target_shape:
\*     new_data = np.full(target_shape, np.nan)
\*     new_data[:min_rows, :min_cols] = data[:min_rows, :min_cols]
Reshaped(data, target) ==
    IF target # NoShape /\ data.shape # target
    THEN LET min_rows == Min2(data.shape[1], target[1])
             min_cols == Min2(data.shape[2], target[2])
         IN  [shape |-> target,
              at |-> [c \in CellsOf(target) |->
                        IF c[1] < min_rows /\ c[2] < min_cols
                        THEN data.at[c] ELSE NaN]]
    ELSE data

load_raster_wa(win, declared, target) == Reshaped(Masked(win, declared), target)

WinInit ==
    /\ wPc = "open"
    /\ wNodata \in DeclaredNodata
    /\ wWindow \in Windows
    /\ wTarget \in {NoShape} \cup WindowShapes
    /\ wData = <<>>
    /\ EstIdle /\ LoadIdle /\ CallIdle /\ CatIdle /\ AggIdle /\ DsIdle /\ PipeIdle /\ UiIdle

\* one call of load_raster_wa
LoadWindow ==
    /\ wPc = "open"
    /\ wData' = load_raster_wa(wWindow, wNodata, wTarget)
    /\ wPc' = "done"
    /\ UNCHANGED <<wNodata, wWindow, wTarget>>
    /\ UNCHANGED exceptWin

WinNext == LoadWindow

\* ------------------------------------------------------------------------
\* The temporal aggregator: the mean of the loaded grids, cell by cell
\* ------------------------------------------------------------------------

\* sundex.py compute_winter_averages, sundex_v2.py winter_avg,
\* build_webapp.py load_and_average_data, build_webapp_v2.py getMonthlyAverage
AggVariants == {"sundex", "sundex_v2", "webapp", "webapp_v2"}

\* the number of grids handed to one aggregation
MaxGrids == 3

\* a grid is one row of cells; NaN is np.nan in Python and null in the
\* exported JSON
GridWidths == {1, 2}
CellValues == {NaN, -4, 9}
Grids == UNION {[1..w -> CellValues] : w \in GridWidths}

\* climateData.shape.cols
ShapeCols == CHOOSE w \in GridWidths : \A u \in GridWidths : u <= w

\* climateData.data[varName][m] of a month that was not exported
NoGrid == <<>>

RECURSIVE SumSeq(_)
SumSeq(s) == IF s = <<>> THEN 0 ELSE Head(s) + SumSeq(Tail(s))

IsPresent(v) == v # NaN

\* the mean with every missing value counted as 0
MeanZeroFilled(col) ==
    SumSeq([i \in DOMAIN col |-> IF col[i] = NaN THEN 0 ELSE col[i]]) \div Len(col)

\* np.nanmean(stacked, axis=0) at one cell: the values along axis 0
nanmean(col) ==
    LET valid == SelectSeq(col, IsPresent)
    IN  IF Len(valid) = 0 THEN NaN ELSE SumSeq(valid) \div Len(valid)

\* np.stack(monthly_data, axis=0) then np.nanmean(..., axis=0)
StackedMean(grids) ==
    [c \in DOMAIN grids[1] |-> nanmean([i \in DOMAIN grids |-> grids[i][c]])]

\* build_webapp.py: every array cropped or padded with NaN to the shape of
\* monthly_arrays[0]
Aligned(grids) ==
    [i \in DOMAIN grids |->
        IF Len(grids[i]) # Len(grids[1])
        THEN [c \in DOMAIN grids[1] |->
                IF c <= Min2(Len(grids[i]), Len(grids[1])) THEN grids[i][c] ELSE NaN]
        ELSE grids[i]]

\* const val = climateData.data[varName]?.[m]?.[r]?.[c]   (None: undefined)
ValAt(grid, c) == IF c \in DOMAIN grid THEN grid[c] ELSE None

IsCounted(val) == val # NaN /\ val # None

\* getMonthlyAverage: sum and count over state.months, then
\* count > 0 ? sum / count : null
getMonthlyAverage(grids) ==
    [c \in 1..ShapeCols |->
        LET counted == SelectSeq([i \in DOMAIN grids |-> ValAt(grids[i], c)], IsCounted)
        IN  IF Len(counted) > 0 THEN SumSeq(counted) \div Len(counted) ELSE NaN]

\* the grid an aggregator returns; NoGrid when averages[var] is not set
Average(av, grids) ==
    CASE av \in {"sundex", "sundex_v2"} ->
            IF grids # <<>> THEN StackedMean(grids) ELSE NoGrid
      [] av = "webapp" ->
            IF grids # <<>> THEN StackedMean(Aligned(grids)) ELSE NoGrid
      [] av = "webapp_v2" -> getMonthlyAverage(grids)

\* the grids one more load can add: load_raster_wa conforms every grid to the
\* first one's shape; build_webapp.py keeps native shapes; the exported JSON
\* has full rows and lacks the months that were not loaded
NextGrids(av, grids) ==
    CASE av \in {"sundex", "sundex_v2"} ->
            {g \in Grids : grids # <<>> => Len(g) = Len(grids[1])}
      [] av = "webapp" -> Grids
      [] av = "webapp_v2" -> {g \in Grids : Len(g) = ShapeCols} \cup {NoGrid}

AggInit ==
    /\ agVariant \in AggVariants
    /\ agPc = "collect"
    /\ agGrids = <<>>
    /\ agResult = <<>>
    /\ EstIdle /\ LoadIdle /\ CallIdle /\ CatIdle /\ WinIdle /\ DsIdle /\ PipeIdle /\ UiIdle

\* one more month's grid
AddGrid ==
    /\ agPc = "collect"
    /\ Len(agGrids) < MaxGrids
    /\ \E g \in NextGrids(agVariant, agGrids) : agGrids' = Append(agGrids, g)
    /\ UNCHANGED <<agVariant, agPc, agResult>>
    /\ UNCHANGED exceptAgg

\* the aggregation over the grids collected
Aggregate ==
    /\ agPc = "collect"
    /\ agResult' = Average(agVariant, agGrids)
    /\ agPc' = "done"
    /\ UNCHANGED <<agVariant, agGrids>>
    /\ UNCHANGED exceptAgg

AggNext == AddGrid \/ Aggregate

\* ------------------------------------------------------------------------
\* The block downsampler: downsample(arr, factor)
\* ------------------------------------------------------------------------

\* The samples are IEEE 754 doubles (float64, the dtype of np.zeros and of
\* the arrays numpy builds from Python floats), and np.mean rounds after every
\* addition and after the division, to the nearest double, ties to the even
\* mantissa. A number of the model is a positive double that is a multiple
\* of 2^-56, held as <<h, m, l>> for (h * 2^40 + m * 2^20 + l) * 2^-56 with
\* m, l < 2^20; np.nan is <<>>. Every double from 2^-4 up to 8 is such a
\* number, so the sums and the means of samples from 0.1 to 0.3 are the
\* doubles numpy computes, bit for bit.

MantissaBits == 53

Limb == 2^20

np_nan == <<>>

Abs(x) == IF x < 0 THEN -x ELSE x

\* the limbs with the carries taken over
Carried(h, m, l) ==
    <<h + ((m + (l \div Limb)) \div Limb), (m + (l \div Limb)) % Limb, l % Limb>>

\* x + y, exact
BigAdd(x, y) == Carried(x[1] + y[1], x[2] + y[2], x[3] + y[3])

\* n * x, exact, n a small integer
BigTimes(n, x) == Carried(n * x[1], n * x[2], n * x[3])

\* x <= y
BigLeq(x, y) ==
    \/ x[1] < y[1]
    \/ x[1] = y[1] /\ x[2] < y[2]
    \/ x[1] = y[1] /\ x[2] = y[2] /\ x[3] <= y[3]

\* floor(x / d) and the remainder, d a small integer
BigDiv(x, d) ==
    LET t2 == ((x[1] % d) * Limb) + x[2]
        t3 == ((t2 % d) * Limb) + x[3]
    IN  [q |-> <<x[1] \div d, t2 \div d, t3 \div d>>, r |-> t3 % d]

RECURSIVE BitsOf(_)
BitsOf(n) == IF n = 0 THEN 0 ELSE 1 + BitsOf(n \div 2)

\* the spacing of the doubles around x, in units of 2^-56
Quantum(x) ==
    LET excess == (BitsOf(x[1]) + 40) - MantissaBits
    IN  IF excess > 0 THEN 2^excess ELSE 1

\* num / den rounded to the nearest double, ties to the even mantissa
Round(num, den) ==
    LET q == Quantum(BigDiv(num, den).q)
        d == BigDiv(num, den * q)
        up == \/ 2 * d.r > den * q
              \/ 2 * d.r = den * q /\ d.q[3] % 2 = 1
    IN  BigTimes(q, IF up THEN BigAdd(d.q, <<0, 0, 1>>) ELSE d.q)

\* x + y as a double
FloatAdd(x, y) == Round(BigAdd(x, y), 1)

\* res = 0.; for (i = 0; i < n; i++) res += a[i]: the sum of fewer than 8
\* samples, rounded after every addition, left to right
RECURSIVE FloatSum(_, _)
FloatSum(s, sofar) ==
    IF s = <<>> THEN sofar ELSE FloatSum(Tail(s), FloatAdd(sofar, Head(s)))

\* the sum np.add.reduce takes over a contiguous array of n <= 15 doubles:
\* left to right below 8 samples; from 8 on, the first eight in pairs,
\* res = ((r0 + r1) + (r2 + r3)) + ((r4 + r5) + (r6 + r7)), and the rest
\* added to res one by one
pairwise_sum(a) ==
    IF Len(a) < 8 THEN FloatSum(Tail(a), Head(a))
    ELSE FloatSum(SubSeq(a, 9, Len(a)),
                  FloatAdd(FloatAdd(FloatAdd(a[1], a[2]), FloatAdd(a[3], a[4])),
                           FloatAdd(FloatAdd(a[5], a[6]), FloatAdd(a[7], a[8]))))

\* np.mean(valid): the rounded sum divided by the count, rounded
np_mean(valid) == Round(pairwise_sum(valid), Len(valid))

\* the doubles 0.1 (0x1.999999999999ap-4) and 0.3 (0x1.3333333333333p-2)
Tenth == <<6553, 629145, 629146>>

ThreeTenths == <<19660, 838860, 838860>>

\* the shapes of the grids passed
DsShapes == {<<2, 2>>, <<3, 2>>, <<2, 3>>, <<3, 3>>}

\* the samples of the grids passed
DsValues == {np_nan, Tenth, ThreeTenths}

DsArrays == UNION {[shape : {sh}, at : [CellsOf(sh) -> DsValues]] : sh \in DsShapes}

\* the largest factor passed
MaxFactor == 2

\* the block cut down to its first row
BlockFirstRow(arr, factor, i, j) ==
    [k \in 1..factor |-> arr.at[<<i * factor, (j * factor) + (k - 1)>>]]

\* block = arr[i*factor:(i+1)*factor, j*factor:(j+1)*factor], in row-major
\* order
Block(arr, factor, i, j) ==
    [k \in 1..(factor * factor) |->
        arr.at[<<(i * factor) + ((k - 1) \div factor), (j * factor) + ((k - 1) % factor)>>]]

\* the mean of the block with every missing sample counted as 0
BlockMeanZeroFilled(block) ==
    np_mean([k \in DOMAIN block |-> IF block[k] = np_nan THEN <<0, 0, 0>> ELSE block[k]])

\* valid = block[~np.isnan(block)];
\* result[i, j] = np.mean(valid) if len(valid) > 0 else np.nan
BlockMean(block) ==
    LET valid == SelectSeq(block, LAMBDA x : x # np_nan)
    IN  IF Len(valid) > 0 THEN np_mean(valid) ELSE np_nan

\* h, w = arr.shape; new_h, new_w = h // factor, w // factor; the loop over
\* range(new_h) and range(new_w)
downsample(arr, factor) ==
    LET new_h == arr.shape[1] \div factor
        new_w == arr.shape[2] \div factor
    IN  [shape |-> <<new_h, new_w>>,
         at |-> [c \in CellsOf(<<new_h, new_w>>) |->
                    BlockMean(Block(arr, factor, c[1], c[2]))]]

DsInit ==
    /\ dsPc = "call"
    /\ dsArr \in DsArrays
    /\ dsFactor \in 1..MaxFactor
    /\ dsResult = <<>>
    /\ EstIdle /\ LoadIdle /\ CallIdle /\ CatIdle /\ WinIdle /\ AggIdle /\ PipeIdle /\ UiIdle

\* one call of downsample
Downsample ==
    /\ dsPc = "call"
    /\ dsResult' = downsample(dsArr, dsFactor)
    /\ dsPc' = "done"
    /\ UNCHANGED <<dsArr, dsFactor>>
    /\ UNCHANGED exceptDs

DsNext == Downsample

\* ------------------------------------------------------------------------
\* A pipeline run: catalog, loader loops, and the export of the web builds
\* ------------------------------------------------------------------------

\* the pipelines whose main downsamples and exports
Exporters == {"webapp", "webapp_v2"}

\* WA_BOUNDS west and north, in hundredths of a degree
West == -12485
North == 4905

\* The raster files a catalog can hold: the shape of the window read and the
\* window's transform (cell size and origin). The second file is of a finer
\* product whose grid lines fall elsewhere; the third overlaps the bounds in
\* one row only.
RasterFiles ==
    {[shape |-> <<2, 2>>, cell |-> 6, west |-> West, north |-> North],
     [shape |-> <<3, 3>>, cell |-> 4, west |-> West - 1, north |-> North + 1],
     [shape |-> <<1, 2>>, cell |-> 6, west |-> West, north |-> North]}

\* src.window_transform(window) of a north-up raster
WindowTransform(file) ==
    [a |-> file.cell, b |-> 0, c |-> file.west,
     d |-> 0, e |-> -file.cell, f |-> file.north]

\* the months a catalog can hold files for
PipeMonths == {12, 1}

\* the variables a catalog can hold files for
PipeVariables == {"ppt", "soltrans", "tmean"}

\* paths[var]: the (month, file) entries in the order get_file_paths
\* inserted them, one per month; two months for ppt, one for the others
VarEntries(var) ==
    LET One == [month : PipeMonths, file : RasterFiles]
    IN  {<<>>} \cup {<<e>> : e \in One}
        \cup IF var = "ppt"
             THEN {<<p[1], p[2]>> : p \in {q \in One \X One : q[1].month # q[2].month}}
             ELSE {}

\* file_paths as get_file_paths returns it: every variable has a key
Catalogs(lv) ==
    {[var \in {VarsOf(lv)[i] : i \in DOMAIN VarsOf(lv)} |->
        CASE var = "ppt" -> c[1]
          [] var = "soltrans" -> c[2]
          [] var = "tmean" -> c[3]
          [] OTHER -> <<>>] :
     c \in VarEntries("ppt") \X VarEntries("soltrans") \X VarEntries("tmean")}

HasMonth(entries, m) == \E i \in DOMAIN entries : entries[i].month = m

FileFor(entries, m) == entries[CHOOSE i \in DOMAIN entries : entries[i].month = m].file

\* the months in the order the dictionary of a variable lists them
MonthOrderAsListed(lv, entries) == [i \in DOMAIN entries |-> entries[i].month]

\* for month in WINTER_MONTHS.keys():   (range(1, 13), months)
MonthOrder(lv, entries) == MonthsOf(lv)

\* ... if month in month_files: the files of one variable in loop order
VarLoop(lv, var, entries) ==
    LET hit == SelectSeq(MonthOrder(lv, entries), LAMBDA m : HasMonth(entries, m))
    IN  [i \in DOMAIN hit |->
            [var |-> var, month |-> hit[i], file |-> FileFor(entries, hit[i])]]

\* for var, month_files in file_paths.items(): the catalogued files in the
\* order the nested loops reach them
RECURSIVE LoopFrom(_, _, _)
LoopFrom(lv, cat, i) ==
    IF i > Len(VarsOf(lv)) THEN <<>>
    ELSE VarLoop(lv, VarsOf(lv)[i], cat[VarsOf(lv)[i]]) \o LoopFrom(lv, cat, i + 1)

Loop(lv, cat) == LoopFrom(lv, cat, 1)

\* rasterio.open never fails to be noticed: the loop goes on however it ends
PcAfterOpenIgnored(ok) == "load"

\* with rasterio.open(...) as src: no handler surrounds it, the exception
\* ends the loader
PcAfterOpen(ok) == IF ok THEN "load" ELSE "raised"

\* averages of build_webapp.py: a variable has a key when it has an array;
\* the arrays are aligned to the variable's first
AveragesOf(data) ==
    LET vs == {data[i].var : i \in DOMAIN data}
    IN  [var \in vs |->
            data[CHOOSE i \in DOMAIN data :
                    /\ data[i].var = var
                    /\ \A j \in DOMAIN data : data[j].var = var => i <= j].shape]

\* new_arr[:min_r, :min_c] = arr[:min_r, :min_c]: the cells holding data
\* that lie inside the target shape; the others are cut off
CroppedCells(cells, target) ==
    {q \in cells : q[1] < target[1] /\ q[2] < target[2]}

\* the cells of np.nanmean of a variable's aligned arrays that are not NaN:
\* those holding data in some month's array after its alignment to the
\* variable's first
AveragedCells(data, var) ==
    UNION {CroppedCells(data[i].cells, AveragesOf(data)[var]) :
              i \in {j \in DOMAIN data : data[j].var = var}}

\* factor = 2
ExportFactor == 2

\* h // factor, w // factor
DownsampledShape(shape, factor) == <<shape[1] \div factor, shape[2] \div factor>>

\* the cells of downsample(arr, factor) that are not NaN: the blocks with a
\* cell holding data; an odd last row or column belongs to no block
DownsampledCells(cells, shape, factor) ==
    LET kept == CroppedCells(cells, <<(shape[1] \div factor) * factor,
                                      (shape[2] \div factor) * factor>>)
    IN  {<<q[1] \div factor, q[2] \div factor>> : q \in kept}

\* valid = arr[~np.isnan(arr)] of a downsampled array is empty, and
\* valid.min() raises
EmptySelection(cells, shape) == DownsampledCells(cells, shape, ExportFactor) = {}

\* the transform with the origin scaled as well
ScaledTransform(t, factor) ==
    [a |-> t.a * factor, b |-> t.b, c |-> t.c * factor,
     d |-> t.d, e |-> t.e * factor, f |-> t.f * factor]

\* rasterio.Affine(transform.a * factor, transform.b, transform.c,
\*                 transform.d, transform.e * factor, transform.f)
NewTransform(t, factor) ==
    [a |-> t.a * factor, b |-> t.b, c |-> t.c,
     d |-> t.d, e |-> t.e * factor, f |-> t.f]

\* new_transform * (col, row)
AffineTimes(t, col, row) ==
    <<(t.a * col) + (t.b * row) + t.c, (t.d * col) + (t.e * row) + t.f>>

\* west, north = new_transform * (0, 0); east, south = new_transform * (cols, rows)
BoundsOf(t, shape) ==
    [west |-> AffineTimes(t, 0, 0)[1], north |-> AffineTimes(t, 0, 0)[2],
     east |-> AffineTimes(t, shape[2], shape[1])[1],
     south |-> AffineTimes(t, shape[2], shape[1])[2]]

DataExport(t, shape, keys) ==
    [bounds |-> BoundsOf(NewTransform(t, ExportFactor), shape),
     shape |-> shape,
     cellSize |-> Abs(NewTransform(t, ExportFactor).a),
     transform |-> NewTransform(t, ExportFactor),
     data |-> keys]

Raised(error) == [error |-> error, export |-> NoExport]
Exported(export) == [error |-> "none", export |-> export]

\* main of build_webapp.py after load_and_average_data
MainWebapp(t, data) ==
    LET avgs == AveragesOf(data)
        downsampled == [var \in DOMAIN avgs |->
                            DownsampledShape(avgs[var], ExportFactor)]
    IN  IF t = NoTransform THEN Raised("AttributeError")
        ELSE IF "ppt" \notin DOMAIN downsampled THEN Raised("KeyError")
        ELSE IF ~({"soltrans", "tmean"} \subseteq DOMAIN downsampled)
             THEN Raised("KeyError")
        ELSE IF \E var \in {"soltrans", "ppt", "tmean"} :
                    EmptySelection(AveragedCells(data, var), avgs[var])
             THEN Raised("ValueError")
        ELSE Exported(DataExport(t, downsampled["ppt"],
                                 {<<var, 0>> : var \in {"soltrans", "ppt", "tmean"}}))

\* main of build_webapp_v2.py after load_monthly_data
MainWebappV2(t, data) ==
    LET first == SelectSeq(data, LAMBDA x : x.var = "ppt")
    IN  IF first = <<>> THEN Raised("IndexError")
        ELSE IF \E i \in DOMAIN data : EmptySelection(data[i].cells, data[i].shape)
             THEN Raised("ValueError")
        ELSE Exported(DataExport(t, DownsampledShape(first[1].shape, ExportFactor),
                                 {<<data[i].var, data[i].month>> : i \in DOMAIN data}))

Main(lv, t, data) ==
    IF lv = "webapp" THEN MainWebapp(t, data) ELSE MainWebappV2(t, data)

PipeInit ==
    /\ plVariant \in LoaderVariants
    /\ plPc = "load"
    /\ plCatalog \in Catalogs(plVariant)
    /\ plPos = 0
    /\ plTransform = NoTransform
    /\ plTarget = NoShape
    /\ plData = <<>>
    /\ plFailed = FALSE
    /\ plError = "none"
    /\ plExport = NoExport
    /\ EstIdle /\ LoadIdle /\ CallIdle /\ CatIdle /\ WinIdle /\ AggIdle /\ DsIdle /\ UiIdle

\* what a window read holds: data in every cell, nodata in every cell, or
\* data in its last cell (bottom right) only; only the web builds' main
\* looks at it (valid.min())
WindowContents(lv) == IF lv \in Exporters THEN {"full", "none", "last"} ELSE {"full"}

\* the cells (row, column, from 0) of a window that hold data after
\* np.where(data == nodata, np.nan, data)
CellsHolding(shape, content) ==
    CASE content = "full" ->
            {<<r, c>> : r \in 0..(shape[1] - 1), c \in 0..(shape[2] - 1)}
      [] content = "last" -> {<<shape[1] - 1, shape[2] - 1>>}
      [] OTHER -> {}

\* The loops reach the next catalogued file and open it. The file is read,
\* or rasterio.open raises and the exception leaves the loader. The window
\* read holds one of the contents; the loaders that conform an array to
\* target_shape cut its cells with it.
PipeLoad ==
    /\ plPc = "load"
    /\ plPos < Len(Loop(plVariant, plCatalog))
    /\ \E ok \in BOOLEAN, content \in WindowContents(plVariant) :
        LET entry == Loop(plVariant, plCatalog)[plPos + 1]
            data == IF plVariant = "webapp" THEN entry.file.shape
                    ELSE Conformed(entry.file.shape, plTarget)
            cells == CroppedCells(CellsHolding(entry.file.shape, content), data)
        IN  /\ plPc' = PcAfterOpen(ok)
            /\ plFailed' = (plFailed \/ ~ok)
            /\ plError' = IF PcAfterOpen(ok) = "raised" THEN "RasterioIOError" ELSE plError
            /\ plTransform' = IF ok /\ plTransform = NoTransform
                              THEN WindowTransform(entry.file) ELSE plTransform
            /\ plTarget' = IF ok /\ plVariant # "webapp" /\ plTransform = NoTransform
                           THEN data ELSE plTarget
            /\ plData' = IF ok
                         THEN Append(plData, [var |-> entry.var, month |-> entry.month,
                                              shape |-> data, cells |-> cells])
                         ELSE plData
    /\ plPos' = plPos + 1
    /\ UNCHANGED <<plVariant, plCatalog, plExport>>
    /\ UNCHANGED exceptPipe

\* The loops run out: the loader returns, and the web builds go on to main.
PipeReturn ==
    /\ plPc = "load"
    /\ plPos = Len(Loop(plVariant, plCatalog))
    /\ plPc' = IF plVariant \in Exporters THEN "main" ELSE "done"
    /\ UNCHANGED <<plVariant, plCatalog, plPos, plTransform, plTarget, plData,
                   plFailed, plError, plExport>>
    /\ UNCHANGED exceptPipe

\* main: downsample, rescale the transform, build data_export
PipeExport ==
    /\ plPc = "main"
    /\ LET out == Main(plVariant, plTransform, plData)
       IN  /\ plError' = out.error
           /\ plExport' = out.export
           /\ plPc' = IF out.error = "none" THEN "done" ELSE "raised"
    /\ UNCHANGED <<plVariant, plCatalog, plPos, plTransform, plTarget, plData, plFailed>>
    /\ UNCHANGED exceptPipe

PipeNext == PipeLoad \/ PipeReturn \/ PipeExport

\* ------------------------------------------------------------------------
\* The frontends: controls, state and display (app.py, build_webapp.py,
\* build_webapp_v2.py)
\* ------------------------------------------------------------------------

Frontends == {"app", "webapp", "webapp_v2"}

\* how many events one session handles
MaxEvents == 3

\* how many entries the months parameter of a URL lists
MaxUrlMonths == 2

\* the month buttons clicked and the months a URL lists: December and
\* January, two of the seven buttons that are not disabled
UiButtons == {12, 1}

\* the data-months attributes of the three preset buttons
Presets ==
    { <<11, 12, 1, 2>>,
      <<10, 11, 12, 1, 2, 3, 4>>,
      <<1, 2, 3, 4, 5, 6, 7, 8, 9, 10, 11, 12>> }

\* the data-layer attributes of the four layer buttons
Layers == {"goodDays", "solar", "precip", "temp"}

\* positions of the solar slider (percent), of the precip slider (tenths of
\* a millimetre) and of the temperature slider (degrees) that every frontend
\* that has the slider allows, the precip slider's minimum included
SolarPositions == {40, 50}

PrecipPositions == {0, 10, 25}

TempPositions == {-5, 0}

\* let state = { layer: 'goodDays', months: [10, ..., 4], solarMin: 0.50,
\* precipMax: 1.0 }; the sliders' value attributes in the other frontends,
\* whose temperature slider starts at 0
DefaultState ==
    [layer |-> "goodDays", months |-> WINTER_MONTHS, solarMin |-> 50,
     precipMax |-> 10, tempMin |-> 0]

\* the query strings: each parameter present or not; layer is a layer's
\* name, months a comma-separated list, solar an integer percentage, precip a
\* number
UrlMonthLists ==
    UNION {[1..n -> UiButtons] : n \in 1..MaxUrlMonths}

Urls ==
    [hasLayer : BOOLEAN, layer : {"solar"},
     hasMonths : BOOLEAN, months : UrlMonthLists,
     hasSolar : BOOLEAN, solar : {40},
     hasPrecip : BOOLEAN, precip : {0, 25}]

\* loadFromUrl: each parameter present overwrites its field, unvalidated
loadFromUrl(st, url) ==
    [layer     |-> IF url.hasLayer THEN url.layer ELSE st.layer,
     months    |-> IF url.hasMonths THEN url.months ELSE st.months,
     solarMin  |-> IF url.hasSolar THEN url.solar ELSE st.solarMin,
     precipMax |-> IF url.hasPrecip THEN url.precip ELSE st.precipMax,
     tempMin   |-> st.tempMin]

\* the two cells of the exported grid
UiCells == {1, 2}

\* climateData.data at the two cells; every month has data for every
\* variable. Cell 1 is clear all winter, dry from December to February and
\* very wet in the other months; cell 2 is nearly as clear, very wet from
\* December to February and dry in the other months. At these normals
\* fracSolar is 1 to within 1e-5 and fracDry is at a bound of its range,
\* 0.95 or 0.05, for every position of the sliders, so a cell's good days
\* are multiples of 0.05 day to within 0.01 and units of 1/Scale hold them
\* as the page computes them.
CellClimate(c) ==
    IF c = 1
    THEN [core     |-> [sol |-> 100, ppt |-> 0,   tmean |-> 5],
          shoulder |-> [sol |-> 100, ppt |-> 900, tmean |-> -3]]
    ELSE [core     |-> [sol |-> 95,  ppt |-> 900, tmean |-> -30],
          shoulder |-> [sol |-> 95,  ppt |-> 0,   tmean |-> 12]]

\* the threshold arguments a frontend hands to its estimator: the sliders'
\* values (the v2 web app has no temperature criterion)
ThresholdsOf(st) ==
    [solar_min |-> st.solarMin, precip_max |-> st.precipMax, temp_min |-> st.tempMin]

\* for (const m of state.months) { ... goodDays += fracSolar * fracDry * days }
RECURSIVE SumMonths(_, _, _, _, _)
SumMonths(t, months, clim, a, i) ==
    IF i > Len(months) THEN a
    ELSE SumMonths(t, months, clim,
                   StepAcc("webapp_v2", t, a, NormalsOf(clim, months[i]),
                           DaysInMonth(months[i])),
                   i + 1)

\* a cell's good days as the frontend's estimator computes them
calculateGoodDays(v, st, c) ==
    LET t == ThresholdsOf(st)
        clim == CellClimate(c)
    IN  CASE v = "webapp_v2" ->
               Returned(v, SumMonths(t, st.months, clim, ZeroAcc, 1)).combined
          [] v = "webapp" -> AveragedGoodDays(t, clim.core)
          [] OTHER ->
               Returned(v, RunMonths(v, t,
                                     [i \in 1..Len(WINTER_MONTHS) |->
                                         NormalsOf(clim, WINTER_MONTHS[i])],
                                     ZeroAcc, 1)).combined

\* the normal a layer of the v2 web app shows: soltrans as a percentage,
\* ppt, tmean
LayerNormal(layer, inp) ==
    CASE layer = "solar" -> inp.sol
      [] layer = "precip" -> inp.ppt
      [] OTHER -> inp.tmean

RECURSIVE SumNormals(_, _, _, _)
SumNormals(layer, months, clim, i) ==
    IF i > Len(months) THEN 0
    ELSE LayerNormal(layer, NormalsOf(clim, months[i]))
            + SumNormals(layer, months, clim, i + 1)

\* getMonthlyAverage(varName) at a cell: count > 0 ? sum / count : null
LayerAverage(st, c) ==
    IF Len(st.months) = 0 THEN NaN
    ELSE (SumNormals(st.layer, st.months, CellClimate(c), 1) * Scale)
            \div Len(st.months)

\* Math.round of a good-days value; null stays null
MathRound(x) == IF x = NaN THEN NaN ELSE (x + (Scale \div 2)) \div Scale

\* a value in JavaScript arithmetic: null counts as 0
Num(x) == IF x = NaN THEN 0 ELSE x

\* the data render (update in build_webapp.py, the rerun of app.py) draws:
\* the good days of every cell, or in the v2 web app the averages of the
\* layer selected
MapData(v, st) ==
    [c \in UiCells |->
        IF v = "webapp_v2" /\ st.layer # "goodDays" THEN LayerAverage(st, c)
        ELSE calculateGoodDays(v, st, c)]

\* whether drawing the data ends in an exception. In the web apps getColor
\* divides by max - min: with one value among the cells that are not null
\* the quotient is NaN and colors[NaN][0] throws TypeError; so it does in
\* build_webapp.py for a cell whose good days are NaN. In app.py valid.min()
\* raises ValueError when every cell is NaN.
DrawFails(v, data) ==
    LET shown == {data[c] : c \in UiCells} \ {NaN}
    IN  CASE v = "webapp_v2" -> Cardinality(shown) = 1
          [] v = "webapp" -> Cardinality(shown) = 1 \/ \E c \in UiCells : data[c] = NaN
          [] OTHER -> shown = {}

\* the map on display after render: the data drawn, or what was there before
\* when the draw throws before the overlay is replaced (in app.py the page
\* of the failed rerun shows no map)
render(v, st, before) ==
    IF DrawFails(v, MapData(v, st))
    THEN IF v = "app" THEN <<>> ELSE before
    ELSE MapData(v, st)

\* bookkeeping of render: the estimator is called unless the v2 web app
\* shows another layer
UsedAfter(v, st, before) ==
    IF v = "webapp_v2" /\ st.layer # "goodDays" THEN before ELSE <<st.precipMax>>

\* getAllValuesAt(lat, lon).goodDays: null when no month is selected
\* (count === 0), else the rounded estimate, computed when it is called
NoValues == [found |-> FALSE, goodDays |-> 0]

getAllValuesAt(st, c) ==
    IF Len(st.months) = 0 THEN NoValues
    ELSE [found |-> TRUE,
          goodDays |-> MathRound(calculateGoodDays("webapp_v2", st, c))]

\* updateDiff: shown when both locations are set, from their stored vals
updateDiff(a, b) ==
    IF a.set /\ b.set
    THEN [shown |-> TRUE, value |-> Num(b.goodDays) - Num(a.goodDays)]
    ELSE NoDiff

\* state.months.filter(x => x !== m)
RECURSIVE Without(_, _)
Without(months, m) ==
    IF months = <<>> THEN <<>>
    ELSE IF Head(months) = m THEN Without(Tail(months), m)
    ELSE <<Head(months)>> \o Without(Tail(months), m)

\* state.months.sort((a, b) => a - b)
RECURSIVE Inserted(_, _)
Inserted(sorted, m) ==
    IF sorted = <<>> THEN <<m>>
    ELSE IF m < Head(sorted) THEN <<m>> \o sorted
    ELSE <<Head(sorted)>> \o Inserted(Tail(sorted), m)

RECURSIVE Sorted(_)
Sorted(months) ==
    IF months = <<>> THEN <<>>
    ELSE Inserted(Sorted(Tail(months)), Head(months))

Includes(months, m) == \E i \in 1..Len(months) : months[i] = m

\* if (state.months.length > 1)
MayRemove(months) == Len(months) > 1

\* the month button's handler on state.months
Toggled(months, m) ==
    IF Includes(months, m)
    THEN IF MayRemove(months) THEN Without(months, m) ELSE months
    ELSE Sorted(Append(months, m))

\* the script's start (loadFromUrl(); updateUI(); render();) in the v2 web
\* app; the first run with the sliders' defaults in the other two
UiInit ==
    /\ uiVariant \in Frontends
    /\ \E url \in Urls :
          uiState = IF uiVariant = "webapp_v2"
                    THEN loadFromUrl(DefaultState, url) ELSE DefaultState
    /\ uiMap = render(uiVariant, uiState, <<>>)
    /\ uiLocA = NoLocation
    /\ uiLocB = NoLocation
    /\ uiDiff = NoDiff
    /\ uiUsed = UsedAfter(uiVariant, uiState, <<>>)
    /\ uiEvents = 0
    /\ EstIdle /\ LoadIdle /\ CallIdle /\ CatIdle /\ WinIdle /\ AggIdle /\ DsIdle /\ PipeIdle

\* what every handler of a control ends with: the state is stored, the map
\* is drawn again from it; the comparison panels are not touched
Rerendered(st) ==
    /\ uiState' = st
    /\ uiMap' = render(uiVariant, st, uiMap)
    /\ uiUsed' = UsedAfter(uiVariant, st, uiUsed)
    /\ uiEvents' = uiEvents + 1
    /\ UNCHANGED <<uiVariant, uiLocA, uiLocB, uiDiff>>
    /\ UNCHANGED exceptUi

\* a click on a layer button
ClickLayer ==
    /\ uiVariant = "webapp_v2"
    /\ uiEvents < MaxEvents
    /\ \E l \in Layers : Rerendered([uiState EXCEPT !.layer = l])

\* a click on a month button that is not disabled
ClickMonth ==
    /\ uiVariant = "webapp_v2"
    /\ uiEvents < MaxEvents
    /\ \E m \in UiButtons :
          Rerendered([uiState EXCEPT !.months = Toggled(uiState.months, m)])

\* a click on a preset button
ClickPreset ==
    /\ uiVariant = "webapp_v2"
    /\ uiEvents < MaxEvents
    /\ \E p \in Presets : Rerendered([uiState EXCEPT !.months = p])

\* the solar slider's input event (the rerun of app.py, update() in
\* build_webapp.py)
MoveSolarSlider ==
    /\ uiEvents < MaxEvents
    /\ \E x \in SolarPositions : Rerendered([uiState EXCEPT !.solarMin = x])

\* the precip slider's input event
MovePrecipSlider ==
    /\ uiEvents < MaxEvents
    /\ \E x \in PrecipPositions : Rerendered([uiState EXCEPT !.precipMax = x])

\* the temperature slider's input event; the v2 web app has no such slider
MoveTempSlider ==
    /\ uiVariant # "webapp_v2"
    /\ uiEvents < MaxEvents
    /\ \E x \in TempPositions : Rerendered([uiState EXCEPT !.tempMin = x])

\* a click on the map: setLocation('a', ...) when a is empty, else
\* setLocation('b', ...); nothing when the cell has no values
ClickMap ==
    /\ uiVariant = "webapp_v2"
    /\ uiEvents < MaxEvents
    /\ \E c \in UiCells :
          LET vals == getAllValuesAt(uiState, c)
              loc == [set |-> TRUE, cell |-> c, goodDays |-> vals.goodDays]
              a == IF uiLocA.set THEN uiLocA ELSE loc
              b == IF uiLocA.set THEN loc ELSE uiLocB
          IN  IF vals.found
              THEN /\ uiLocA' = a
                   /\ uiLocB' = b
                   /\ uiDiff' = updateDiff(a, b)
              ELSE UNCHANGED <<uiLocA, uiLocB, uiDiff>>
    /\ uiUsed' = <<uiState.precipMax>>
    /\ uiEvents' = uiEvents + 1
    /\ UNCHANGED <<uiVariant, uiState, uiMap>>
    /\ UNCHANGED exceptUi

\* a click on a location's clear button
clearLocation ==
    /\ uiVariant = "webapp_v2"
    /\ uiEvents < MaxEvents
    /\ \E which \in {"a", "b"} :
          LET a == IF which = "a" THEN NoLocation ELSE uiLocA
              b == IF which = "b" THEN NoLocation ELSE uiLocB
          IN  /\ uiLocA' = a
              /\ uiLocB' = b
              /\ uiDiff' = updateDiff(a, b)
    /\ uiEvents' = uiEvents + 1
    /\ UNCHANGED <<uiVariant, uiState, uiMap, uiUsed>>
    /\ UNCHANGED exceptUi

UiNext ==
    \/ ClickLayer
    \/ ClickMonth
    \/ ClickPreset
    \/ MoveSolarSlider
    \/ MovePrecipSlider
    \/ MoveTempSlider
    \/ ClickMap
    \/ clearLocation


\* ------------------------------------------------------------------------
\* Specifications
\* ------------------------------------------------------------------------

\* one call of an estimator
SpecEst == EstInit /\ [][EstNext]_vars

\* one run of a loader
SpecLoad == LoadInit /\ [][LoadNext]_vars

\* a series of calls of one estimator
SpecCalls == CallInit /\ [][CallNext]_vars

\* one run of a catalog resolver
SpecCatalog == CatInit /\ [][CatNext]_vars

\* one call of the raster window loader
SpecWindow == WinInit /\ [][WinNext]_vars

\* one aggregation over up to MaxGrids grids
SpecAggregate == AggInit /\ [][AggNext]_vars

\* one call of the block downsampler
SpecDownsample == DsInit /\ [][DsNext]_vars

\* one pipeline run over one catalog
SpecPipeline == PipeInit /\ [][PipeNext]_vars

SpecUI == UiInit /\ [][UiNext]_vars

\* ------------------------------------------------------------------------
\* Properties of the loaders
\* ------------------------------------------------------------------------

\* the shapes of the grids the loader has produced so far: the monthly grids
\* and the averaged grids
ReturnedShapes ==
    {monthly_data[p] : p \in DOMAIN monthly_data}
        \cup {averages[v] : v \in DOMAIN averages}

\* C1: in every loader variant, once a raster has been loaded, the reference
\* transform is the one the first successful load set, the reference shape
\* (where the loader keeps one) is the shape of that first load, and every
\* grid the loader returns, for every variable and month, has exactly the
\* shape of the first load.
C1_ReferenceGridFixed ==
    ldCount > 0 =>
        /\ transform = ldFirst.pos
        /\ target_shape \in {NoShape, ldFirst.shape}
        /\ \A sh \in ReturnedShapes : sh = ldFirst.shape

\* ------------------------------------------------------------------------
\* Properties of the estimator (specification SpecEst)
\* ------------------------------------------------------------------------

\* the month the loop passed last, and its day count
LastMonth == WINTER_MONTHS[idx]
LastDays == IF variant = "webapp" THEN WebappDays ELSE DaysInMonth(LastMonth)

\* the month passed last was not skipped: its fractions were computed
Computed == idx > 0 /\ cur # NoTerms

WithinPeriod(x) == IsNum(x) /\ 0 <= x /\ x <= TOTAL_DAYS * Scale

\* C2: for a valid threshold config (solar_min in [0,1], precip_max > 0) and a
\* cell whose inputs are all non-missing in the months that have data, the
\* combined good-days value is a number between 0 and the total days of the
\* period, while it is accumulated and when it is returned.
C2_CombinedWithinPeriod ==
    (/\ variant \in PythonVariants
     /\ thr.solar_min \in 0..100
     /\ thr.precip_max > 0
     /\ ~ghost.anyNaN)
    => /\ WithinPeriod(acc.combined)
       /\ WithinPeriod(acc2.combined)
       /\ pc = "done" => WithinPeriod(result.combined)

C2_Witness ==
    /\ pc = "done"
    /\ variant \in PythonVariants
    /\ thr.precip_max > 0
    /\ ~ghost.anyNaN
    /\ ghost.anyFull
    /\ ghost.anyAbsent
    /\ result.combined > 0
    /\ result.combined < TOTAL_DAYS * Scale

\* the inputs an estimator variant requires of a month
RequiredAbsent(v, inp) ==
    \/ inp.sol = None
    \/ inp.ppt = None
    \/ (v \in PythonVariants /\ inp.tmean = None)

\* C3: in each estimator variant, a month for which the grid of a required
\* input variable is absent is skipped: the pass over it changes none of the
\* accumulators.
C3_AbsentMonthSkipped ==
    [][(/\ idx' = idx + 1
        /\ variant \in MonthlyVariants
        /\ thr.precip_max > 0
        /\ RequiredAbsent(variant, cell'))
        => acc' = acc]_vars

\* C4: a cell that is NaN in some month for at least one input variable and
\* has all three values in another month ends with the sum of the
\* contributions of the months where it has all three values, and not NaN.
C4_MissingCellMonthSkipped ==
    (/\ pc = "done"
     /\ variant \in PythonVariants
     /\ thr.precip_max > 0
     /\ ghost.anyNaN
     /\ ghost.anyFull)
    => /\ result = ghost.expected
       /\ IsNum(result.combined)

\* C5: a cell whose three inputs are all missing in every month of the period
\* ends with a combined output of exactly 0.
C5_AllMissingGivesZero ==
    (/\ pc = "done"
     /\ variant \in PythonVariants
     /\ ghost.allNaN)
    => result.combined = 0

\* C6 as stated: in every estimator variant the combined probability of a
\* contributing month is the product of three probabilities: solar adequacy,
\* dryness and temperature adequacy.
C6_ProductOfThree ==
    (idx > 0 /\ variant \in MonthlyVariants /\ thr.precip_max > 0 /\ AllPresent(cell))
    => cur.fc = FracMul(FracMul(SolarProb(variant, thr.solar_min, cell.sol),
                                DryFrac(variant, cell.ppt, LastDays, thr.precip_max)),
                        TempProb(thr.temp_min, cell.tmean))

\* the dry-day fraction as the claim states it, for every variant:
\* clip(0.95 - (ppt / days) / (precipMax * k), floor, 0.95)
StatedDryFrac(v, ppt, days, precip_max) ==
    Clip(DryCeilMinus(CASE precip_max = 0 /\ ppt = 0 -> NaN
                        [] precip_max = 0 /\ ppt > 0 -> PosInf
                        [] precip_max = 0 /\ ppt < 0 -> NegInf
                        [] OTHER -> (ppt * Scale * 10) \div (days * precip_max * DryK(v))),
         DryFloor(v), DryCeil)

\* C7: in every estimator variant the dry-day fraction of a month and cell is
\* clip(0.95 - dailyPrecip / (precipMax * k), floor, 0.95) with the caller's
\* precipMax and the variant's (k, floor).
C7_DryFractionFormula ==
    (Computed /\ variant \in MonthlyVariants /\ thr.precip_max > 0 /\ AllPresent(cell))
    => cur.fd = StatedDryFrac(variant, cell.ppt, LastDays, thr.precip_max)

\* C8: for a cell whose monthly precipitation is 0 mm the dry-day fraction is
\* exactly 0.95, for every precip_max the estimator can be called with.
C8_ZeroPrecipGivesCeiling ==
    (Computed /\ AllPresent(cell) /\ cell.ppt = 0) => cur.fd = DryCeil

\* C9: for every mean temperature and every temp_min, the temperature
\* probability the estimator uses lies in [0.1, 1.0].
C9_TempProbBounded ==
    (Computed /\ variant # "webapp_v2" /\ IsNum(cell.tmean))
    => /\ TempFloor <= cur.fw /\ cur.fw <= TempCeil
       /\ TempFloor <= cur2.fw /\ cur2.fw <= TempCeil

C9_Witness ==
    /\ Computed
    /\ variant \in PythonVariants
    /\ IsNum(cell.tmean)
    /\ cell.tmean < thr.temp_min - 4 * TempStd
    /\ cur.fw = TempFloor

\* an accumulator of the second call is not above that of the first
NotRaised(a, b) == IF IsNum(a) THEN IsNum(b) /\ b <= a ELSE b = a

\* C10: with the monthly means fixed, raising solar_min never raises the solar
\* probability, raising temp_min never raises the temperature probability,
\* and neither raises any accumulated good-days value.
C10_RaisingNeverRaises ==
    (variant \in PythonVariants)
    => /\ (Computed /\ IsNum(cell.sol)) => cur2.fs <= cur.fs
       /\ (Computed /\ IsNum(cell.tmean)) => cur2.fw <= cur.fw
       /\ NotRaised(acc.solar, acc2.solar)
       /\ NotRaised(acc.dry, acc2.dry)
       /\ NotRaised(acc.temp, acc2.temp)
       /\ NotRaised(acc.combined, acc2.combined)

C10_Witness ==
    /\ pc = "done"
    /\ variant = "sundex_v2"
    /\ thr2.temp_min > thr.temp_min
    /\ IsNum(acc.combined)
    /\ acc2.temp < acc.temp
    /\ acc2.combined < acc.combined
    /\ acc2.solar = acc.solar

\* ------------------------------------------------------------------------
\* Properties of repeated calls (specification SpecCalls)
\* ------------------------------------------------------------------------

\* C11: the estimator is a pure function of its arguments: after a call the
\* argument objects (the monthly arrays and the thresholds), read back where
\* the body worked, hold what was passed, and a call with the arguments of
\* the first call returns what the first call returned, whatever calls were
\* made in between and whatever they left in the storage of their arrays.
C11_PureFunction ==
    cCount > 0 =>
        /\ cArgs = cPassed
        /\ (cPassed = cFirst.args => cResult = cFirst.result)

C11_Witness ==
    /\ cCount = 3
    /\ cOther
    /\ cPassed = cFirst.args
    /\ cResult = cFirst.result
    /\ IsNum(cResult.combined)
    /\ cResult.combined > 0

\* ------------------------------------------------------------------------
\* Properties of the catalog resolver (specification SpecCatalog)
\* ------------------------------------------------------------------------

\* the entry the listing yielded last
LastEntry == listing[Len(listing)]

\* the pairs an entry qualifies for on its own
KeysOf(cv, e) == DOMAIN AfterItem(cv, NoMap, e)

\* the first entry of the listing that qualifies for the pair k
FirstFor(cv, k) ==
    listing[CHOOSE i \in 1..Len(listing) :
                /\ k \in KeysOf(cv, listing[i])
                /\ \A j \in 1..(i - 1) : k \notin KeysOf(cv, listing[j])]

\* C12: when several directories classify to the same (variable, month) pair,
\* the catalog maps the pair to the file of the first of them in listing
\* order; a directory discovered later never replaces an entry.
C12_FirstDiscoveredWins ==
    \A k \in DOMAIN paths : paths[k] = FirstFor(catVariant, k)

\* C13: every month key of the catalog is an integer in 1..12; a directory
\* whose month token is not in 1..12 adds no entry.
C13_MonthKeysValid ==
    \A k \in DOMAIN paths : k[2] \in 1..12

\* the entry of the data root that has the given name
EntryNamed(name) == CHOOSE e \in 1..Len(Entries) : Entries[e].name = name

\* PRISM_ppt_30yr_normal_4kmM4_01_bil
ScenarioPpt ==
    EntryNamed(<<"P","R","I","S","M","_","p","p","t","_","3","0","y","r","_","n","o">>
               \o <<"r","m","a","l","_","4","k","m","M","4","_","0","1","_","b","i","l">>)

\* prism_tmean_us_25m_202001_avg_30y
ScenarioTmean ==
    EntryNamed(<<"p","r","i","s","m","_","t","m","e","a","n","_","u","s","_","2","5">>
               \o <<"m","_","2","0","2","0","0","1","_","a","v","g","_","3","0","y">>)

\* C14: the directory prism_tmean_us_25m_202001_avg_30y with a raster file is
\* recorded under tmean, month 1, and PRISM_ppt_30yr_normal_4kmM4_01_bil with
\* a raster file under ppt, month 1, and under no other variable or month.
C14_ScenarioNames ==
    [][/\ (Len(listing') = Len(listing) + 1 /\ listing'[Len(listing')] = ScenarioTmean)
          => paths' = Assign(paths, <<"tmean", 1>>, ScenarioTmean)
       /\ (Len(listing') = Len(listing) + 1 /\ listing'[Len(listing')] = ScenarioPpt)
          => paths' = Assign(paths, <<"ppt", 1>>, ScenarioPpt)]_vars

C14_Witness ==
    /\ catPc = "done"
    /\ Entries[ScenarioPpt].kind = "raster_dir"
    /\ Entries[ScenarioTmean].kind = "raster_dir"
    /\ Len(listing) = 2
    /\ listing[1] = ScenarioPpt
    /\ listing[2] = ScenarioTmean
    /\ DOMAIN paths = {<<"ppt", 1>>, <<"tmean", 1>>}
    /\ paths[<<"ppt", 1>>] = ScenarioPpt
    /\ paths[<<"tmean", 1>>] = ScenarioTmean

\* C15: in every variant of the resolver a directory whose name contains
\* '800m', in any case, contributes no entry to the catalog.
C15_AlternateResolutionSkipped ==
    \A k \in DOMAIN paths :
        ~Contains(Marker800m, ToLower(Entries[paths[k]].name))

\* the identifiers in their enumeration order
Identifiers == <<"ppt", "soltrans", "tmean", "tdmean">>

\* the first identifier, in enumeration order, that the name contains in any
\* case; "" when it contains none
FirstIdentifier(item) ==
    LET hits == {k \in 1..Len(Identifiers) :
                    Contains(VarChars(Identifiers[k]), ToLower(item))}
    IN  IF hits = {} THEN ""
        ELSE Identifiers[CHOOSE k \in hits : \A j \in hits : k <= j]

\* the pairs whose entry a step sets or replaces
Written == {k \in DOMAIN paths' : k \notin DOMAIN paths \/ paths'[k] # paths[k]}

\* C16: a directory is classified to at most one variable, the first
\* identifier in the order ppt, soltrans, tmean, tdmean that its name
\* contains: it adds an entry under that identifier only, and when no month
\* is extracted for it no later identifier is tried and nothing is added.
C16_FirstIdentifierOnly ==
    [][Len(listing') = Len(listing) + 1
        => LET e == listing'[Len(listing')]
               item == Entries[e].name
           IN  /\ Cardinality(Written) <= 1
               /\ \A k \in Written : k[1] = FirstIdentifier(item) /\ paths'[k] = e
               /\ ~Truthy(ExtractMonth(item)) => paths' = paths]_vars

\* a directory naming tdmean before ppt went to ppt
C16_Witness ==
    /\ Len(listing) > 0
    /\ Contains(VarChars("tdmean"), ToLower(Entries[LastEntry].name))
    /\ FirstIdentifier(Entries[LastEntry].name) = "ppt"
    /\ \E k \in DOMAIN paths : k[1] = "ppt" /\ paths[k] = LastEntry
    /\ ~\E k \in DOMAIN paths : k[1] = "tdmean" /\ paths[k] = LastEntry

\* the name's segments hold a six-digit token and no two-digit token stands
\* immediately before a 'bil' segment
SixDigitOnly(item) ==
    /\ MonthOfYYYYMM(Split(item)) # None
    /\ MonthBeforeBil(Split(item)) = None

\* C17: for a classified directory whose segments hold a six-digit token, and
\* in which no two-digit token precedes a 'bil' segment, the month is the
\* last two digits of the first six-digit token, whatever else the name holds.
C17_SixDigitTokenAnywhere ==
    [][Len(listing') = Len(listing) + 1
        => LET e == listing'[Len(listing')]
               item == Entries[e].name
               month == MonthOfYYYYMM(Split(item))
           IN  (/\ Entries[e].kind = "raster_dir"
                /\ FirstIdentifier(item) \in {VarsOf(catVariant)[k] : k \in 1..Len(VarsOf(catVariant))}
                /\ ~Contains(Marker800m, ToLower(item))
                /\ SixDigitOnly(item)
                /\ month \in 1..12)
               => /\ <<FirstIdentifier(item), month>> \in DOMAIN paths'
                  /\ paths'[<<FirstIdentifier(item), month>>] = e]_vars

\* ------------------------------------------------------------------------
\* Properties of the raster window loader (specification SpecWindow)
\* ------------------------------------------------------------------------

\* the cells the window and the returned grid share
SharedCells == DOMAIN wWindow.at \cap DOMAIN wData.at

\* C18: every sample equal to the raster's declared nodata value becomes NaN,
\* for every declared value including 0; when the raster declares none,
\* exactly the samples equal to -9999 become NaN; every other sample is
\* returned unchanged.
C18_NodataBecomesMissing ==
    wPc = "done" =>
        \A c \in SharedCells :
            LET nodata == IF wNodata = None THEN -9999 ELSE wNodata
            IN  wData.at[c] = IF wWindow.at[c] = nodata THEN NaN ELSE wWindow.at[c]

\* C19: given a target_shape that differs from the window's shape, the grid
\* returned has exactly target_shape; its cell (r, c) is the loaded cell
\* (r, c) for r < min(rows) and c < min(cols), and NaN everywhere else.
C19_CropPadTopLeft ==
    (wPc = "done" /\ wTarget # NoShape /\ wTarget # wWindow.shape)
    => LET loaded == Masked(wWindow, wNodata)
       IN  /\ wData.shape = wTarget
           /\ DOMAIN wData.at = CellsOf(wTarget)
           /\ \A r \in 0..(wTarget[1] - 1), c \in 0..(wTarget[2] - 1) :
                wData.at[<<r, c>>] =
                    IF r < wWindow.shape[1] /\ c < wWindow.shape[2]
                    THEN loaded.at[<<r, c>>] ELSE NaN

\* a window of one row and two columns conformed to two rows and one column
C19_Witness ==
    /\ wPc = "done"
    /\ wWindow.shape = <<1, 2>>
    /\ wTarget = <<2, 1>>
    /\ wData.shape = <<2, 1>>
    /\ wData.at[<<0, 0>>] = 7
    /\ wWindow.at[<<0, 0>>] = 7
    /\ wData.at[<<1, 0>>] = NaN

\* ------------------------------------------------------------------------
\* Properties of the temporal aggregator (specification SpecAggregate)
\* ------------------------------------------------------------------------

\* the grids in which cell c is not missing
PresentAt(c) ==
    {i \in DOMAIN agGrids : c \in DOMAIN agGrids[i] /\ agGrids[i][c] # NaN}

RECURSIVE SumAt(_, _)
SumAt(c, S) ==
    IF S = {} THEN 0
    ELSE LET i == CHOOSE j \in S : TRUE
         IN  agGrids[i][c] + SumAt(c, S \ {i})

\* the cells of the grid returned
ResultCells ==
    IF agVariant = "webapp_v2" THEN 1..ShapeCols
    ELSE IF agGrids = <<>> THEN {} ELSE DOMAIN agGrids[1]

\* C20: every cell of the grid returned is the mean of the non-missing values
\* of that cell across the provided grids (to the unit of the values); a cell
\* missing in every grid is missing, not 0, and a cell missing in some grids
\* is averaged over the grids where it is present.
C20_MeanOfPresent ==
    agPc = "done" =>
        /\ DOMAIN agResult = ResultCells
        /\ \A c \in ResultCells :
            LET n == Cardinality(PresentAt(c))
                sum == SumAt(c, PresentAt(c))
            IN  IF n = 0 THEN agResult[c] = NaN
                ELSE /\ agResult[c] # NaN
                     /\ n * agResult[c] <= sum
                     /\ sum < n * (agResult[c] + 1)

\* three grids: the first cell is missing in the second grid only, the second
\* cell in all three
C20_Witness ==
    /\ agPc = "done"
    /\ agVariant = "sundex"
    /\ agGrids = << <<-4, NaN>>, <<NaN, NaN>>, <<9, NaN>> >>
    /\ agResult = <<2, NaN>>

\* ------------------------------------------------------------------------
\* Properties of the block downsampler (specification SpecDownsample)
\* ------------------------------------------------------------------------

\* the source cells of output cell (i, j)
BlockCells(i, j) ==
    {c \in DOMAIN dsArr.at :
        /\ i * dsFactor <= c[1] /\ c[1] < (i + 1) * dsFactor
        /\ j * dsFactor <= c[2] /\ c[2] < (j + 1) * dsFactor}

PresentIn(S) == {c \in S : dsArr.at[c] # np_nan}

\* the exact sum of the samples of the cells
RECURSIVE SumCells(_)
SumCells(S) ==
    IF S = {} THEN <<0, 0, 0>>
    ELSE LET c == CHOOSE d \in S : TRUE IN BigAdd(dsArr.at[c], SumCells(S \ {c}))

\* x and y differ by at most tol
Within(x, y, tol) == BigLeq(x, BigAdd(y, tol)) /\ BigLeq(y, BigAdd(x, tol))

\* the grid without its trailing rows and columns
Cropped ==
    LET sh == <<(dsArr.shape[1] \div dsFactor) * dsFactor,
                (dsArr.shape[2] \div dsFactor) * dsFactor>>
    IN  [shape |-> sh, at |-> [c \in CellsOf(sh) |-> dsArr.at[c]]]

\* C21: the grid returned has floor(rows/factor) x floor(cols/factor) cells;
\* cell (i, j) is missing when its source block has no non-missing sample and
\* otherwise is the mean of the block's non-missing samples, to the rounding
\* of the additions and of the division; the trailing rows and columns
\* influence no cell.
C21_BlockMeans ==
    dsPc = "done" =>
        /\ dsResult.shape = <<dsArr.shape[1] \div dsFactor, dsArr.shape[2] \div dsFactor>>
        /\ DOMAIN dsResult.at = CellsOf(dsResult.shape)
        /\ \A c \in DOMAIN dsResult.at :
            LET present == PresentIn(BlockCells(c[1], c[2]))
                n == Cardinality(present)
            IN  IF n = 0 THEN dsResult.at[c] = np_nan
                ELSE /\ dsResult.at[c] # np_nan
                     /\ Within(BigTimes(n, dsResult.at[c]), SumCells(present),
                               <<0, 0, n * Quantum(SumCells(present))>>)
        /\ dsResult = downsample(Cropped, dsFactor)

\* a grid of three rows and three columns downsampled by 2: one cell, the
\* mean 0.2 (0x1.999999999999ap-3) of the two samples present in the
\* top-left block
C21_Witness ==
    /\ dsPc = "done"
    /\ dsFactor = 2
    /\ dsArr.shape = <<3, 3>>
    /\ dsArr.at[<<0, 0>>] = Tenth /\ dsArr.at[<<0, 1>>] = np_nan
    /\ dsArr.at[<<1, 0>>] = np_nan /\ dsArr.at[<<1, 1>>] = ThreeTenths
    /\ dsArr.at[<<2, 2>>] = ThreeTenths
    /\ dsResult.shape = <<1, 1>>
    /\ dsResult.at[<<0, 0>>] = <<13107, 209715, 209716>>

\* the grid passed has a non-missing cell, and all of them hold the value v
UniformAt(v) ==
    /\ PresentIn(DOMAIN dsArr.at) # {}
    /\ \A c \in PresentIn(DOMAIN dsArr.at) : dsArr.at[c] = v

CataloguedPairs ==
    {pair \in (DOMAIN plCatalog) \X PipeMonths : HasMonth(plCatalog[pair[1]], pair[2])}

\* the place of a pair in the loader's fixed iteration order
IndexIn(seq, x) == CHOOSE i \in DOMAIN seq : seq[i] = x
PlaceOf(pair) ==
    (IndexIn(VarsOf(plVariant), pair[1]) * 100) + IndexIn(MonthsOf(plVariant), pair[2])

\* the first catalogued file in the loader's fixed iteration order
FirstPair ==
    CHOOSE pair \in CataloguedPairs :
        \A other \in CataloguedPairs : PlaceOf(pair) <= PlaceOf(other)
FirstFile == FileFor(plCatalog[FirstPair[1]], FirstPair[2])

\* C23: the exported transform keeps the reference origin and multiplies the
\* cell width and the cell height by the factor, and the exported bounds are
\* the extent of the floor(rows/f)*f rows and floor(cols/f)*f columns of the
\* reference grid that were averaged, from its top-left corner.
C23_BoundsOfAveragedExtent ==
    (plPc = "done" /\ plVariant \in Exporters) =>
        LET t == plExport.transform
            rows == (FirstFile.shape[1] \div ExportFactor) * ExportFactor
            cols == (FirstFile.shape[2] \div ExportFactor) * ExportFactor
        IN  /\ t.c = FirstFile.west /\ t.f = FirstFile.north
            /\ t.a = FirstFile.cell * ExportFactor
            /\ t.e = (-FirstFile.cell) * ExportFactor
            /\ plExport.bounds.west = FirstFile.west
            /\ plExport.bounds.north = FirstFile.north
            /\ plExport.bounds.east = FirstFile.west + (FirstFile.cell * cols)
            /\ plExport.bounds.south = FirstFile.north - (FirstFile.cell * rows)

\* an export whose reference grid has three rows and three columns of cell
\* size 4: one exported cell of size 8, the third row and column left out
C23_Witness ==
    /\ plPc = "done"
    /\ plVariant = "webapp_v2"
    /\ FirstFile.shape = <<3, 3>>
    /\ plExport.shape = <<1, 1>>
    /\ plExport.cellSize = 8
    /\ plExport.bounds.east = (West - 1) + 8
    /\ plExport.bounds.south = (North + 1) - 8

\* C24: when a catalogued raster file cannot be opened, the load ends in an
\* error that reaches the caller: the run is over with the exception, no
\* result is returned or exported, and the file is never passed over.
C24_OpenFailureIsFatal ==
    plFailed =>
        /\ plPc = "raised"
        /\ plError = "RasterioIOError"
        /\ plExport = NoExport

\* the second catalogued file of a run could not be opened, the first was
\* loaded, and a third was never reached
C24_Witness ==
    /\ plFailed
    /\ plPc = "raised"
    /\ plVariant = "app"
    /\ Len(plData) = 1
    /\ plPos = 2
    /\ Len(Loop(plVariant, plCatalog)) = 3

\* C25: a run over a catalog with gaps, every catalogued file being
\* readable, never ends in an exception, not even when one variable has no
\* file for any month.
C25_GapsNeverRaise ==
    (~plFailed /\ \E var \in PipeVariables, m \in PipeMonths :
                    ~HasMonth(plCatalog[var], m))
        => plPc # "raised"

\* C27: the reference transform and shape are those of the first catalogued
\* file in the loader's fixed iteration order (the variables in the order of
\* the catalog's keys, the months in the loader's month order), whatever the
\* order in which the entries were listed and inserted.
C27_ReferenceIsFirstInFixedOrder ==
    plData # <<>> =>
        /\ plTransform = WindowTransform(FirstFile)
        /\ plVariant # "webapp" => plTarget = FirstFile.shape

\* a run over a catalog whose ppt entries were inserted January first, read
\* by a loader that takes December first; the two files differ
C27_Witness ==
    /\ plPc = "done"
    /\ plVariant = "sundex_v2"
    /\ Len(plCatalog["ppt"]) = 2
    /\ plCatalog["ppt"][1].month = 1
    /\ plCatalog["ppt"][1].file.shape = <<2, 2>>
    /\ plCatalog["ppt"][2].file.shape = <<3, 3>>
    /\ plTarget = <<3, 3>>
    /\ plTransform.a = 4

\* ------------------------------------------------------------------------
\* The accumulators of one call against each other (specification SpecEst)
\* ------------------------------------------------------------------------

\* a <= b on doubles: false when either side is NaN
Leq(a, b) == a # NaN /\ b # NaN /\ a <= b

\* the single-criterion accumulators a variant returns
SingleCriteria(v) ==
    IF v = "sundex_v2" THEN {"solar", "dry", "temp"} ELSE {"solar", "dry"}

\* C29: for every cell and every threshold config, the combined accumulator a
\* call returns is at most each single-criterion accumulator of the same
\* call, and a single-criterion accumulator grows by at most the day count of
\* a month that contributes and not at all in a month that is skipped, so
\* that it is at most the summed day count of the months that contributed.
C29_CombinedBelowEachCriterion ==
    /\ [](  (pc = "done" /\ variant \in PythonVariants)
            => \A x \in SingleCriteria(variant) : Leq(result.combined, result[x]))
    /\ [][  (idx' = idx + 1 /\ variant \in PythonVariants)
            => \A x \in SingleCriteria(variant) :
                  IF Skips(variant, cell') THEN acc'[x] = acc[x]
                  ELSE /\ Leq(acc[x], acc'[x])
                       /\ Leq(acc'[x], acc[x] + (DaysInMonth(WINTER_MONTHS[idx']) * Scale))
         ]_vars

\* ------------------------------------------------------------------------
\* The frontends' controls and display (specification SpecUI)
\* ------------------------------------------------------------------------

\* C26: no value that a frontend control can produce (the app.py slider, the
\* precip sliders of the two generated web apps, the v2 URL parameter)
\* reaches the dry-day computation with precip_max = 0: every estimator call
\* a frontend makes receives precip_max > 0.
C26_CallersEnforcePositive == \A i \in DOMAIN uiUsed : uiUsed[i] > 0

\* the good-days values the estimator gives for the current thresholds and
\* month set: the map's, a location panel's, the difference panel's
CurrentAt(loc) == MathRound(calculateGoodDays("webapp_v2", uiState, loc.cell))

\* C28: in the v2 web app, after any sequence of slider changes, month
\* clicks, preset clicks and location selections, every good-days value on
\* display (the map layer, the Location A and Location B panels and their
\* difference) equals the estimator's value for the current thresholds and
\* month set (looked at when the draw of the current state has not failed).
C28_DisplayIsCurrent ==
    (uiVariant = "webapp_v2" /\ ~DrawFails(uiVariant, MapData(uiVariant, uiState))) =>
        /\ uiState.layer = "goodDays" => uiMap = MapData(uiVariant, uiState)
        /\ uiLocA.set => uiLocA.goodDays = CurrentAt(uiLocA)
        /\ uiLocB.set => uiLocB.goodDays = CurrentAt(uiLocB)
        /\ uiDiff.shown =>
              uiDiff.value = Num(CurrentAt(uiLocB)) - Num(CurrentAt(uiLocA))

\* C30: in the v2 web app, from the default state or from any state set by
\* loadFromUrl, after any sequence of month-button clicks and preset clicks
\* the selected month list is never empty.
C30_MonthsNeverEmpty == uiVariant = "webapp_v2" => Len(uiState.months) > 0

====
